---- MODULE Spec2Model ----
(***************************************************************************)
(* Cluster request/response orchestration of secretvaults-ts:              *)
(*   executeOnCluster  (src/src/common/cluster.ts, src/src/common/nuc-cmd.ts)*)
(*   prepareRequest    (both variants kept in the repository)              *)
(* JavaScript values are modelled as tagged records so that values of      *)
(* different JavaScript types stay comparable.                             *)
(***************************************************************************)
EXTENDS Integers, Sequences, FiniteSets, TLC

\* ------------------------------------------------------------------ bounds

\* Largest number of node clients handed to one executeOnCluster call.
MaxNodes == 3

\* Largest number of node clients handed to one prepareRequest call.
MaxClients == 2

\* Largest number of nodes a key was generated for.
MaxKeyNodes == 2

\* Largest number of fields of a document handed to conceal.
MaxFields == 2

\* Largest number of array/object layers between a request body's top-level
\* field and its innermost object.
MaxDepth == 2

\* Most nodes of a cluster in the runs checked for eventual outcomes.
MaxLiveNodes == 2

\* ------------------------------------------------------- JavaScript values

Undefined == [ty |-> "undefined", n |-> 0, s |-> ""]
Null      == [ty |-> "null", n |-> 0, s |-> ""]
Str(x)    == [ty |-> "string", n |-> 0, s |-> x]
Num(k)    == [ty |-> "number", n |-> k, s |-> ""]

IsNullish(v) == v.ty \in {"undefined", "null"}

\* a ?? b
Coalesce(a, b) == IF IsNullish(a) THEN b ELSE a

NoCause == [ty |-> "undefined", body |-> Undefined, status |-> Undefined]
Cause(body, status) == [ty |-> "object", body |-> body, status |-> status]

\* The values a node operation rejects with (or throws synchronously):
\*   the Error of handleErrorResponse with a JSON/text body, the same with no
\*   body (body: null), a plain Error, a thrown string, null and undefined.
HttpError     == [ty |-> "Error", message |-> Str("Request failed: POST /v1/data"),
                  cause |-> Cause(Str("{errors}"), Num(500))]
HttpErrorNoBody == [ty |-> "Error", message |-> Str("Request failed: GET /about"),
                  cause |-> Cause(Null, Num(404))]
PlainError    == [ty |-> "Error", message |-> Str("Node 2 failed"), cause |-> NoCause]
ThrownString  == [ty |-> "string", message |-> Undefined, cause |-> NoCause]
ThrownNull    == [ty |-> "null", message |-> Undefined, cause |-> NoCause]
ThrownUndefined == [ty |-> "undefined", message |-> Undefined, cause |-> NoCause]

RejectionValues ==
  {HttpError, HttpErrorNoBody, PlainError, ThrownString, ThrownNull, ThrownUndefined}

NoRejection == ThrownUndefined

\* Node identities (client.id.toString()).
NodeIds == {"did:n1", "did:n2", "did:n3"}

\* The values operation(client, index) may fulfil with.
OpResults == {"ok", "void"}
NoResult == [node |-> "", index |-> 0, v |-> ""]

RECURSIVE SeqsUpTo(_, _)
SeqsUpTo(S, n) ==
  IF n = 0 THEN {<<>>}
  ELSE LET shorter == SeqsUpTo(S, n - 1)
       IN shorter \cup {Append(q, x) : q \in {r \in shorter : Len(r) = n - 1}, x \in S}

Range(q) == {q[i] : i \in 1..Len(q)}

Distinct(q) == \A i, j \in 1..Len(q) : i # j => q[i] # q[j]

\* ----------------------------------------------------------------- objects

\* A JavaScript object keyed by strings that are not integer-like: a sequence
\* of <<key, value>> in insertion order, each key once.
HasKey(obj, k) == \E i \in 1..Len(obj) : obj[i][1] = k

KeyIndex(obj, k) == CHOOSE i \in 1..Len(obj) : obj[i][1] = k

Lookup(obj, k) == obj[KeyIndex(obj, k)][2]

Keys(obj) == {obj[i][1] : i \in 1..Len(obj)}

\* obj[k] = v
SetKey(obj, k, v) ==
  IF HasKey(obj, k)
    THEN [obj EXCEPT ![KeyIndex(obj, k)] = <<k, v>>]
    ELSE Append(obj, <<k, v>>)

\* Object.fromEntries(entries)
RECURSIVE FromEntries(_)
FromEntries(entries) ==
  IF entries = <<>> THEN <<>>
  ELSE LET n == Len(entries)
       IN SetKey(FromEntries(SubSeq(entries, 1, n - 1)), entries[n][1], entries[n][2])

\* -------------------------------------------------------------- JSON values

\* A string is a sequence of tokens: "." is a token of its own, and every
\* maximal run of other characters is one token ("a.b" is <<"a", ".", "b">>,
\* "" is <<>>), so that joining with "." and String.split(".") are computed.
Dot == "."
AllotKey == <<"%allot">>
ShareKey == <<"%share">>

\* A JSON value: t is "str" | "undef" | "share" | "obj" | "arr"; id names the
\* allocation of an object or array (<<>> for primitives); e holds the entries
\* <<key, value>> of an object in Object.entries order, and the elements of an
\* array as <<(<<>>), value>>. A share of secret v for node position sh is opaque.
JStr(x)      == [t |-> "str", id |-> <<>>, sh |-> 0, v |-> x, e |-> <<>>]
JUndefined   == [t |-> "undef", id |-> <<>>, sh |-> 0, v |-> "", e |-> <<>>]
JShare(x, i) == [t |-> "share", id |-> <<>>, sh |-> i, v |-> x, e |-> <<>>]
JObj(es)     == [t |-> "obj", id |-> <<>>, sh |-> 0, v |-> "", e |-> es]
JArr(items)  == [t |-> "arr", id |-> <<>>, sh |-> 0, v |-> "", e |-> [j \in DOMAIN items |-> <<(<<>>), items[j]>>]]

\* isPlainObject(x), Array.isArray(x)
IsPlainObject(x) == x.t = "obj"
IsArray(x) == x.t = "arr"
IsContainer(x) == x.t \in {"obj", "arr"}

\* key.toLowerCase(), for the tokens the model uses
LowerToken(c) == IF c \in {"%ALLOT", "%Allot"} THEN "%allot" ELSE c
ToLowerCase(key) == [i \in DOMAIN key |-> LowerToken(key[i])]

\* key.toLowerCase() === "%allot"
IsAllotKeyExact(key) == key = AllotKey

IsAllotKey(key) == ToLowerCase(key) = AllotKey

\* `${index}` for an array index (0-based)
Digits == <<"0", "1", "2", "3", "4", "5", "6", "7", "8", "9">>
IndexString(index) == <<Digits[index + 1]>>

\* Number(part) for a dot-free string: [nan, n]
NumericTokens == {"0", "1", "2", "3", "4", "5", "6", "7", "8", "9", "007", "1e3", "0x10"}
TokenValue(c) ==
  CASE c = "007" -> 7
    [] c = "1e3" -> 1000
    [] c = "0x10" -> 16
    [] OTHER -> (CHOOSE d \in 1..10 : Digits[d] = c) - 1
NumberOf(part) ==
  IF part = <<>> THEN [nan |-> FALSE, n |-> 0]
  ELSE IF Len(part) = 1 /\ part[1] \in NumericTokens
    THEN [nan |-> FALSE, n |-> TokenValue(part[1])]
  ELSE [nan |-> TRUE, n |-> 0]

\* String(n), the property key a numeric index is converted to
NumberString(n) ==
  CASE n \in 0..9 -> <<Digits[n + 1]>>
    [] n = 1000 -> <<"1000">>
    [] n = 16 -> <<"16">>
    [] OTHER -> <<"NaN">>

\* currentPath ? `${currentPath}.${key}` : key
JoinPath(currentPath, key) ==
  IF currentPath = <<>> THEN key ELSE currentPath \o <<Dot>> \o key

\* path.split(".")
RECURSIVE SplitPath(_)
SplitPath(path) ==
  IF \A i \in DOMAIN path : path[i] # Dot THEN <<path>>
  ELSE LET d == CHOOSE i \in DOMAIN path :
                  path[i] = Dot /\ \A j \in 1..(i - 1) : path[j] # Dot
       IN <<SubSeq(path, 1, d - 1)>> \o SplitPath(SubSeq(path, d + 1, Len(path)))

\* The value without its allocation identities: structural (deep) equality.
RECURSIVE Plain(_)
Plain(x) ==
  IF IsContainer(x)
    THEN [x EXCEPT !.id = <<>>,
                   !.e = [j \in DOMAIN x.e |-> <<x.e[j][1], Plain(x.e[j][2])>>]]
    ELSE x

\* Fresh allocations for a whole value: the object made for owner c at
\* structural position p gets the identity <<c>> \o p.
RECURSIVE Allocate(_, _)
Allocate(x, id) ==
  IF IsContainer(x)
    THEN [x EXCEPT !.id = id,
                   !.e = [j \in DOMAIN x.e |->
                            <<x.e[j][1], Allocate(x.e[j][2], Append(id, j))>>]]
    ELSE x

\* A copy that allocates nothing: the very same object.
NoClone(x, c) == x

\* { ...x }: a new top-level object whose members are the original's.
ShallowClone(x, c) == IF IsContainer(x) THEN [x EXCEPT !.id = <<c>>] ELSE x

\* structuredClone(x), made for the client at list position c.
StructuredClone(x, c) == Allocate(x, <<c>>)

\* The allocation identities inside a value.
RECURSIVE Allocations(_)
Allocations(x) ==
  IF IsContainer(x)
    THEN {x.id} \cup UNION {Allocations(x.e[j][2]) : j \in DOMAIN x.e}
    ELSE {}

\* ------------------------------------------------------------------- state

VARIABLES
  nodes,      \* executeOnCluster: the clients' identities, in list order
  mapIdx,     \* how many callbacks of nodes.map have been entered
  opState,    \* per list position: "idle" | "pending" | "fulfilled" | "rejected"
  opResult,   \* per list position: the value the invocation fulfilled with
  opReason,   \* per list position: the value the invocation rejected with
  calls,      \* the invocations made: <<client identity, index>> in order
  firstSettled, \* the list position whose promise settled first (0: none yet)
  execPc,     \* "mapping" | "awaiting" | "done"
  execOut,    \* what executeOnCluster settled with
  pKey,       \* prepareRequest: options.key ([present, nodes])
  pClients,   \* options.clients: the clients' identities, in list order
  bodyIn,     \* options.body as it was passed (a snapshot, for the claims)
  body,       \* the caller's body object as it is now
  prepPc,     \* "ready" | "done" | "mutated"
  prepOut,    \* what prepareRequest settled with
  mutated,    \* the object mutated after the call: [pos, id]
  cKey,       \* conceal / reveal: the key ([present, nodes])
  cDoc,       \* the logical document handed to conceal
  concPc,     \* "ready" | "concealed" | "revealed"
  cShares,    \* what conceal settled with
  cRevealed,  \* what reveal settled with
  lKey,       \* processConcealedListResponse: options.key
  lResults,   \* options.resultsByNode: per node, the `data` array
  lPc,        \* "ready" | "done"
  lGroups,    \* the share groups handed to reveal, in order
  lOut,       \* what processConcealedListResponse settled with
  sResults,   \* processPlaintextResponse: the results map
  sStrategy,  \* "first" | "random" | "default" (argument omitted)
  sRandom,    \* what Math.random() returned, in units of 1 / RandomSteps
  sPc,        \* "ready" | "once" | "twice": calls made on the same map
  sOut,       \* what the latest call settled with
  sPrev,      \* what the call before it settled with
  kCfg,       \* toBlindfoldKey / from: the blindfold configuration
  kSize,      \* clusterSize, or the number of urls.dbs handed to from
  kPc,        \* "ready" | "key" (toBlindfoldKey returned) | "facade" (from returned)
  kKey,       \* what toBlindfoldKey returned
  kFacade,    \* the facade from returned: [clients, key]
  tCtor,      \* builder client: options.rootToken given to the constructor
  tRoot,      \* #rootToken
  tPending,   \* the refreshRootToken calls awaiting requestToken
  tStarted,   \* how many refreshRootToken calls were made
  tLast,      \* the token of the refresh that completed most recently
  tRead,      \* what the latest read of rootToken gave
  aNodes,     \* authenticated operation: this.nodes, as node DIDs
  aAuth,      \* options?.auth
  aRoot,      \* whether the client holds a root token
  aPc,        \* per node, where its callback stands
  aToken,     \* per node, the token getInvocationFor returned
  aRequests,  \* per node, the token its request carried
  aSigned,    \* the tokens the client signed (signAndSerialize)
  aOut,       \* how the operation settled
  wFacade,    \* facade operation: which client source and which method
  wKey,       \* this._options.key
  wClients,   \* this._options.clients (this.nodes), as node identities
  wBody,      \* the body argument
  wAuth,      \* the auth argument (delegation, invocation, AuthContext)
  wRoot,      \* whether the client holds a root token
  wPc,        \* "called" | "dispatch" | "settled"
  wPrep,      \* what prepareRequest returned or threw
  wNodeSt,    \* per node, the state of its callback's promise
  wCalls,     \* per node, the token and payload its client method was called with
  wReasons,   \* per node, what its callback rejected with
  wOut,       \* what the facade method settled with
  mParent,    \* minting: "delegation" | "root", the credential extended
  mExp,       \* the parent's nuc.payload.exp: [present, sec]
  mNow,       \* Date.now(), in ms
  mPc,        \* "ready" | "minted"
  mExpiresIn, \* the expiresIn (ms) the invocation was built with
  fMax,       \* request: maxRetries of fetchWithRetry
  fAttempt,   \* the loop variable attempt
  fPc,        \* "fetching" | "pausing" | "returned" | "threw" | "settled"
  fFetches,   \* how many times fetch was called
  fPauses,    \* the delays (ms) paused for, in order
  fErrors,    \* what the fetch calls threw, in order
  fResponse,  \* the response fetch resolved with
  fOut,       \* what request settled with
  oClient,    \* fan-out with refresh: the builder source ("builder.ts" | "part_010")
  oNodes,     \* the number of configured nodes
  oRoot,      \* the version of the root token held in #rootToken
  oRefresh,   \* refreshRootToken: "idle" | "requested"
  oPc,        \* the operation: "called" | "awaiting" | "settled"
  oParent,    \* per node: the root token version its invocation extends (0: none)
  oSt         \* per node: "idle" | "signing" | "sent" | "done"

execVars == <<nodes, mapIdx, opState, opResult, opReason, calls, firstSettled,
              execPc, execOut>>

prepVars == <<pKey, pClients, bodyIn, body, prepPc, prepOut, mutated>>

concVars == <<cKey, cDoc, concPc, cShares, cRevealed>>

listVars == <<lKey, lResults, lPc, lGroups, lOut>>

selVars == <<sResults, sStrategy, sRandom, sPc, sOut, sPrev>>

keyVars == <<kCfg, kSize, kPc, kKey, kFacade>>

rootVars == <<tCtor, tRoot, tPending, tStarted, tLast, tRead>>

authVars == <<aNodes, aAuth, aRoot, aPc, aToken, aRequests, aSigned, aOut>>

writeVars ==
  <<wFacade, wKey, wClients, wBody, wAuth, wRoot, wPc, wPrep, wNodeSt, wCalls,
    wReasons, wOut>>

mintVars == <<mParent, mExp, mNow, mPc, mExpiresIn>>
fetchVars == <<fMax, fAttempt, fPc, fFetches, fPauses, fErrors, fResponse, fOut>>
fanVars == <<oClient, oNodes, oRoot, oRefresh, oPc, oParent, oSt>>

vars ==
  <<execVars, prepVars, concVars, listVars, selVars, keyVars, rootVars, authVars,
    writeVars, mintVars, fetchVars, fanVars>>

\* What each component leaves alone.
execFrame == <<prepVars, concVars, listVars, selVars, keyVars, rootVars, authVars, writeVars, mintVars, fetchVars, fanVars>>
prepFrame == <<execVars, concVars, listVars, selVars, keyVars, rootVars, authVars, writeVars, mintVars, fetchVars, fanVars>>
concFrame == <<execVars, prepVars, listVars, selVars, keyVars, rootVars, authVars, writeVars, mintVars, fetchVars, fanVars>>
listFrame == <<execVars, prepVars, concVars, selVars, keyVars, rootVars, authVars, writeVars, mintVars, fetchVars, fanVars>>
selFrame == <<execVars, prepVars, concVars, listVars, keyVars, rootVars, authVars, writeVars, mintVars, fetchVars, fanVars>>
keyFrame == <<execVars, prepVars, concVars, listVars, selVars, rootVars, authVars, writeVars, mintVars, fetchVars, fanVars>>
rootFrame == <<execVars, prepVars, concVars, listVars, selVars, keyVars, authVars, writeVars, mintVars, fetchVars, fanVars>>
authFrame == <<execVars, prepVars, concVars, listVars, selVars, keyVars, rootVars, writeVars, mintVars, fetchVars, fanVars>>
writeFrame == <<execVars, prepVars, concVars, listVars, selVars, keyVars, rootVars, authVars, mintVars, fetchVars, fanVars>>
mintFrame == <<execVars, prepVars, concVars, listVars, selVars, keyVars, rootVars, authVars, writeVars, fetchVars, fanVars>>
fetchFrame == <<execVars, prepVars, concVars, listVars, selVars, keyVars, rootVars, authVars, writeVars, mintVars, fanVars>>
fanFrame == <<execVars, prepVars, concVars, listVars, selVars, keyVars, rootVars, authVars, writeVars, mintVars, fetchVars>>

\* ------------------------------------------------------ idle components

NoKey == [present |-> FALSE, nodes |-> 0]
NoPrepared == [kind |-> "none", map |-> <<>>, error |-> ""]
NoMutation == [pos |-> 0, id |-> <<>>]

\* No prepareRequest call is in progress.
PrepIdle ==
  /\ pKey = NoKey
  /\ pClients = <<>>
  /\ bodyIn = JObj(<<>>)
  /\ body = JObj(<<>>)
  /\ prepPc = "idle"
  /\ prepOut = NoPrepared
  /\ mutated = NoMutation

NoDocs == [kind |-> "none", docs |-> <<>>]
NoDoc == [kind |-> "none", doc |-> JObj(<<>>)]

\* No conceal or reveal call is in progress.
ConcIdle ==
  /\ cKey = NoKey
  /\ cDoc = JObj(<<>>)
  /\ concPc = "idle"
  /\ cShares = NoDocs
  /\ cRevealed = NoDoc

NoOutcome == [kind |-> "none", map |-> <<>>, failures |-> <<>>, thrown |-> ""]

\* No executeOnCluster call is in progress.
ExecIdle ==
  /\ nodes = <<>>
  /\ mapIdx = 0
  /\ opState = <<>>
  /\ opResult = <<>>
  /\ opReason = <<>>
  /\ calls = <<>>
  /\ firstSettled = 0
  /\ execPc = "idle"
  /\ execOut = NoOutcome

\* No processConcealedListResponse call is in progress.
ListIdle ==
  /\ lKey = NoKey
  /\ lResults = <<>>
  /\ lPc = "idle"
  /\ lGroups = <<>>
  /\ lOut = NoDocs

NoSelection == [kind |-> "none", val |-> JUndefined, error |-> ""]

\* No processPlaintextResponse call is in progress.
SelIdle ==
  /\ sResults = <<>>
  /\ sStrategy = "first"
  /\ sRandom = 0
  /\ sPc = "idle"
  /\ sOut = NoSelection
  /\ sPrev = NoSelection

\* A blindfold key object: SecretKey or ClusterKey, the number of nodes of
\* its cluster, where it came from and the seed it was generated with.
KeyObject(type, n, origin, seed) ==
  [present |-> TRUE, type |-> type, nodes |-> n, origin |-> origin, seed |-> seed]
NoKeyObject ==
  [present |-> FALSE, type |-> "", nodes |-> 0, origin |-> "", seed |-> "undefined"]

\* options.blindfold absent.
NoBlindfold ==
  [given |-> FALSE, hasKey |-> FALSE, key |-> NoKeyObject, operation |-> "store",
   hasSeed |-> FALSE, seed |-> "undefined",
   hasUseClusterKey |-> FALSE, useClusterKey |-> "undefined"]

NoFacade == [clients |-> 0, key |-> NoKeyObject]

\* No toBlindfoldKey or from call is in progress.
KeyIdle ==
  /\ kCfg = NoBlindfold
  /\ kSize = 0
  /\ kPc = "idle"
  /\ kKey = NoKeyObject
  /\ kFacade = NoFacade

\* A root token envelope: where it came from ("construction" | "refresh") and
\* which refresh call fetched it. NullToken is `null`.
Envelope(origin, n) == [null |-> FALSE, origin |-> origin, n |-> n]
NullToken == [null |-> TRUE, origin |-> "", n |-> 0]

\* options.rootToken absent.
NoRootTokenOption == [form |-> "absent", token |-> NullToken]

NoRead == [kind |-> "none", token |-> NullToken, error |-> ""]

\* No builder client exists.
RootIdle ==
  /\ tCtor = NoRootTokenOption
  /\ tRoot = NullToken
  /\ tPending = {}
  /\ tStarted = 0
  /\ tLast = NullToken
  /\ tRead = NoRead

\* No token (a token is a record: its kind, audience, parent and signer).
NoToken == [t |-> "none", aud |-> "", parent |-> "", by |-> ""]

\* options?.auth absent.
NoAuth ==
  [given |-> FALSE, invocations |-> [present |-> FALSE, map |-> <<>>],
   delegation |-> "", signer |-> ""]

\* No authenticated operation is running.
AuthIdle ==
  /\ aNodes = <<>>
  /\ aAuth = NoAuth
  /\ aRoot = FALSE
  /\ aPc = <<>>
  /\ aToken = <<>>
  /\ aRequests = <<>>
  /\ aSigned = {}
  /\ aOut = "idle"

\* No facade operation is running.
WriteIdle ==
  /\ wFacade = [client |-> "", op |-> ""]
  /\ wKey = NoKey
  /\ wClients = <<>>
  /\ wBody = JUndefined
  /\ wAuth = NoAuth
  /\ wRoot = FALSE
  /\ wPc = "idle"
  /\ wPrep = NoPrepared
  /\ wNodeSt = <<>>
  /\ wCalls = <<>>
  /\ wReasons = <<>>
  /\ wOut = NoOutcome

\* No invocation is being minted.
MintIdle ==
  /\ mParent = ""
  /\ mExp = [present |-> FALSE, sec |-> 0]
  /\ mNow = 0
  /\ mPc = "idle"
  /\ mExpiresIn = 0

NoResponse == [status |-> 0, contentType |-> "", readable |-> FALSE]
NoRequestOutcome == [kind |-> "none", error |-> "", status |-> 0, body |-> ""]

\* No request is running.
FetchIdle ==
  /\ fMax = 0
  /\ fAttempt = 0
  /\ fPc = "idle"
  /\ fFetches = 0
  /\ fPauses = <<>>
  /\ fErrors = <<>>
  /\ fResponse = NoResponse
  /\ fOut = NoRequestOutcome

\* No operation runs beside a refresh.
FanIdle ==
  /\ oClient = ""
  /\ oNodes = 0
  /\ oRoot = 0
  /\ oRefresh = "idle"
  /\ oPc = "idle"
  /\ oParent = <<>>
  /\ oSt = <<>>

\* Every component but the named one is idle.
OthersIdle(component) ==
  /\ component = "exec" \/ ExecIdle
  /\ component = "prep" \/ PrepIdle
  /\ component = "conc" \/ ConcIdle
  /\ component = "list" \/ ListIdle
  /\ component = "sel" \/ SelIdle
  /\ component = "key" \/ KeyIdle
  /\ component = "root" \/ RootIdle
  /\ component = "auth" \/ AuthIdle
  /\ component = "write" \/ WriteIdle
  /\ component = "mint" \/ MintIdle
  /\ component = "fetch" \/ FetchIdle
  /\ component = "fan" \/ FanIdle

\* ------------------------------------------------------- executeOnCluster

Settled(st) == st \in {"fulfilled", "rejected"}

\* A wait that gives up on the promises that are still pending.
AllSettledOrTimeout(states) == TRUE

\* Promise.allSettled(promises) resolves once every promise has settled.
PromiseAllSettledFailFast(states) ==
  \/ \E i \in DOMAIN states : states[i] = "rejected"
  \/ \A i \in DOMAIN states : Settled(states[i])

PromiseAllSettled(states) == \A i \in DOMAIN states : Settled(states[i])

\* error.cause with error null or undefined throws a TypeError.
ReadsCauseOf(error) == ~IsNullish(error)

\* const flattened = { message: error?.message ?? "", body: cause?.body ?? undefined,
\*                     status: cause?.status ?? undefined }
Flattened(error) ==
  [message |-> Coalesce(error.message, Str("")),
   body    |-> Coalesce(error.cause.body, Undefined),
   status  |-> Coalesce(error.cause.status, Undefined)]

\* The entries collected with the node that settled first put first.
SuccessesInSettleOrder(ns, states, results, i) ==
  LET inList == [k \in 1..Len(ns) |-> <<ns[k], results[k]>>]
      rest == SelectSeq([k \in 1..Len(ns) |-> k], LAMBDA k : k # firstSettled)
  IN IF firstSettled = 0 THEN inList
     ELSE <<inList[firstSettled]>> \o [k \in 1..Len(rest) |-> inList[rest[k]]]

\* The positions the for-loop over results visits, in list order.
RECURSIVE Successes(_, _, _, _)
Successes(ns, states, results, i) ==
  IF i > Len(ns) THEN <<>>
  ELSE (IF states[i] = "fulfilled" THEN <<(<<ns[i], results[i]>>)>> ELSE <<>>)
       \o Successes(ns, states, results, i + 1)

RECURSIVE Failures(_, _, _, _)
Failures(ns, states, reasons, i) ==
  IF i > Len(ns) THEN <<>>
  ELSE (IF states[i] = "rejected"
          THEN <<[node |-> ns[i], error |-> Flattened(reasons[i])]>>
          ELSE <<>>)
       \o Failures(ns, states, reasons, i + 1)

\* The first rejected position whose reason makes `error.cause` throw.
LoopThrows(states, reasons) ==
  \E i \in DOMAIN states : states[i] = "rejected" /\ ~ReadsCauseOf(reasons[i])

\* Lines 31-61: what the function settles with once allSettled has resolved.
ExecOutcome(ns, states, results, reasons) ==
  IF LoopThrows(states, reasons)
    THEN [kind |-> "rejected", map |-> <<>>, failures |-> <<>>, thrown |-> "TypeError"]
  ELSE IF Len(Failures(ns, states, reasons, 1)) > 0
    THEN [kind |-> "rejected", map |-> <<>>,
          failures |-> Failures(ns, states, reasons, 1), thrown |-> "failures"]
  ELSE [kind |-> "resolved", map |-> FromEntries(Successes(ns, states, results, 1)),
        failures |-> <<>>, thrown |-> ""]

InitExec ==
  /\ nodes \in SeqsUpTo(NodeIds, MaxNodes)
  /\ mapIdx = 0
  /\ opState = [i \in 1..Len(nodes) |-> "idle"]
  /\ opResult = [i \in 1..Len(nodes) |-> NoResult]
  /\ opReason = [i \in 1..Len(nodes) |-> NoRejection]
  /\ calls = <<>>
  /\ firstSettled = 0
  /\ execPc = "mapping"
  /\ execOut = NoOutcome
  /\ OthersIdle("exec")

\* The value operation(client, index) produces names the invocation it came from.
ResultOf(client, index, v) == [node |-> client, index |-> index, v |-> v]

\* The index nodes.map passes to the callback entered as the k-th (k = 1, 2, ...).
MapIndexWrong(k) == k

MapIndex(k) == k - 1

\* nodes.map(async (client, index) => ...): the callback for the next position runs
\* synchronously up to `await operation(client, index)`; the operation returns
\* a pending promise.
StartNodeOp ==
  /\ execPc = "mapping"
  /\ mapIdx < Len(nodes)
  /\ mapIdx' = mapIdx + 1
  /\ calls' = Append(calls, <<nodes[mapIdx + 1], MapIndex(mapIdx + 1)>>)
  /\ opState' = [opState EXCEPT ![mapIdx + 1] = "pending"]
  /\ UNCHANGED <<nodes, opResult, opReason, firstSettled, execPc, execOut>>

\* The same, with an operation that throws before returning a promise: the
\* callback's catch turns it into a rejection of that node's promise.
StartNodeOpThrows ==
  /\ execPc = "mapping"
  /\ mapIdx < Len(nodes)
  /\ \E e \in RejectionValues :
       /\ opState' = [opState EXCEPT ![mapIdx + 1] = "rejected"]
       /\ opReason' = [opReason EXCEPT ![mapIdx + 1] = e]
  /\ mapIdx' = mapIdx + 1
  /\ calls' = Append(calls, <<nodes[mapIdx + 1], MapIndex(mapIdx + 1)>>)
  /\ firstSettled' = IF firstSettled = 0 THEN mapIdx + 1 ELSE firstSettled
  /\ UNCHANGED <<nodes, opResult, execPc, execOut>>

\* A wait entered as soon as one operation has been started.
AwaitBeforeAllStarted ==
  /\ execPc = "mapping"
  /\ mapIdx >= 1 \/ Len(nodes) = 0
  /\ execPc' = "awaiting"
  /\ UNCHANGED <<nodes, mapIdx, opState, opResult, opReason, calls, firstSettled,
                 execOut>>

\* const results = await Promise.allSettled(promises)
AwaitAllSettled ==
  /\ execPc = "mapping"
  /\ mapIdx = Len(nodes)
  /\ execPc' = "awaiting"
  /\ UNCHANGED <<nodes, mapIdx, opState, opResult, opReason, calls, firstSettled,
                 execOut>>

\* A node's operation fulfils: return [node, result].
OpFulfils ==
  /\ execPc = "awaiting"
  /\ \E i \in 1..Len(nodes), v \in OpResults :
       /\ opState[i] = "pending"
       /\ opState' = [opState EXCEPT ![i] = "fulfilled"]
       /\ opResult' = [opResult EXCEPT ![i] = ResultOf(calls[i][1], calls[i][2], v)]
       /\ firstSettled' = IF firstSettled = 0 THEN i ELSE firstSettled
  /\ UNCHANGED <<nodes, mapIdx, opReason, calls, execPc, execOut>>

\* A node's operation rejects: throw [node, error].
OpRejects ==
  /\ execPc = "awaiting"
  /\ \E i \in 1..Len(nodes), e \in RejectionValues :
       /\ opState[i] = "pending"
       /\ opState' = [opState EXCEPT ![i] = "rejected"]
       /\ opReason' = [opReason EXCEPT ![i] = e]
       /\ firstSettled' = IF firstSettled = 0 THEN i ELSE firstSettled
  /\ UNCHANGED <<nodes, mapIdx, opResult, calls, execPc, execOut>>

\* allSettled resolves and the function runs to its return or throw.
ExecSettles ==
  /\ execPc = "awaiting"
  /\ PromiseAllSettled(opState)
  /\ execOut' = ExecOutcome(nodes, opState, opResult, opReason)
  /\ execPc' = "done"
  /\ UNCHANGED <<nodes, mapIdx, opState, opResult, opReason, calls, firstSettled>>

NextExec ==
  \/ StartNodeOp /\ UNCHANGED execFrame
  \/ StartNodeOpThrows /\ UNCHANGED execFrame
  \/ AwaitAllSettled /\ UNCHANGED execFrame
  \/ OpFulfils /\ UNCHANGED execFrame
  \/ OpRejects /\ UNCHANGED execFrame
  \/ ExecSettles /\ UNCHANGED execFrame

SpecExec == InitExec /\ [][NextExec]_vars

\* The variant of lines 363-374: the callback has no try/catch (a throw of
\* the operation still rejects the node's promise, with the raw error) and
\* the promises are awaited with Promise.all.

\* Promise.all(promises) settles once every promise has fulfilled or as soon
\* as one has rejected.
PromiseAll(states) ==
  \/ \E i \in DOMAIN states : states[i] = "rejected"
  \/ \A i \in DOMAIN states : states[i] = "fulfilled"

\* await Promise.all(promises) throws the first rejection's reason, the raw
\* error of one node; otherwise return Object.fromEntries(results).
PromiseAllOutcome(ns, states, results) ==
  IF \E i \in DOMAIN states : states[i] = "rejected"
    THEN [kind |-> "rejected", map |-> <<>>, failures |-> <<>>, thrown |-> "reason"]
    ELSE [kind |-> "resolved", map |-> FromEntries(Successes(ns, states, results, 1)),
          failures |-> <<>>, thrown |-> ""]

\* Promise.all settles and the function returns or throws.
ExecAllSettles ==
  /\ execPc = "awaiting"
  /\ PromiseAll(opState)
  /\ execOut' = PromiseAllOutcome(nodes, opState, opResult)
  /\ execPc' = "done"
  /\ UNCHANGED <<nodes, mapIdx, opState, opResult, opReason, calls, firstSettled>>

NextExecAll ==
  \/ StartNodeOp /\ UNCHANGED execFrame
  \/ StartNodeOpThrows /\ UNCHANGED execFrame
  \/ AwaitAllSettled /\ UNCHANGED execFrame
  \/ OpFulfils /\ UNCHANGED execFrame
  \/ OpRejects /\ UNCHANGED execFrame
  \/ ExecAllSettles /\ UNCHANGED execFrame

SpecExecAll == InitExec /\ [][NextExecAll]_vars

InitExecLive ==
  /\ InitExec
  /\ Len(nodes) <= MaxLiveNodes

\* The function's own steps are taken when they can be (the callbacks of
\* nodes.map run synchronously, a resolved allSettled resumes the function);
\* whether a node's operation ever settles is left open.
SpecExecLive ==
  /\ InitExecLive
  /\ [][NextExec]_vars
  /\ WF_vars((StartNodeOp \/ StartNodeOpThrows) /\ UNCHANGED execFrame)
  /\ WF_vars(AwaitAllSettled /\ UNCHANGED execFrame)
  /\ WF_vars(ExecSettles /\ UNCHANGED execFrame)

\* ---------------------------------------------- findAllotPathsAndValues

RECURSIVE findAllotPathsAndValues(_, _)
RECURSIVE AllotsOfItems(_, _, _)
RECURSIVE AllotsOfEntries(_, _, _)

\* node.flatMap((item, index) => ...), from element j on
AllotsOfItems(node, currentPath, j) ==
  IF j > Len(node.e) THEN <<>>
  ELSE LET item == node.e[j][2]
           fullPath == JoinPath(currentPath, IndexString(j - 1))
       IN (IF IsPlainObject(item)
             THEN findAllotPathsAndValues(item, fullPath)
             ELSE <<>>)
          \o AllotsOfItems(node, currentPath, j + 1)

\* Object.entries(node).flatMap(([key, value]) => ...), from entry j on
AllotsOfEntries(node, currentPath, j) ==
  IF j > Len(node.e) THEN <<>>
  ELSE LET key == node.e[j][1]
           value == node.e[j][2]
           fullPath == JoinPath(currentPath, key)
       IN (IF IsAllotKey(key) THEN <<[path |-> fullPath, value |-> value]>>
           ELSE IF IsPlainObject(value) THEN findAllotPathsAndValues(value, fullPath)
           ELSE IF IsArray(value) THEN findAllotPathsAndValues(value, fullPath)
           ELSE <<>>)
          \o AllotsOfEntries(node, currentPath, j + 1)

findAllotPathsAndValues(node, currentPath) ==
  IF IsArray(node)
    THEN AllotsOfItems(node, currentPath, 1)
    ELSE AllotsOfEntries(node, currentPath, 1)

\* --------------------------------------------------------- prepareRequest

\* encrypt(key, value): one opaque share per node of the key's cluster.
Encrypt(key, value) == [i \in 1..key.nodes |-> JShare(value.v, i)]

\* encryptedShares[index], undefined past the end of the array
ShareAtIndex(shares, index) ==
  IF index + 1 \in DOMAIN shares THEN shares[index + 1] ELSE JUndefined

\* sharesMap.get(path)[client.id.toString()] for the client at list position c:
\* the Map keeps the last entry set for a path, the object the last value set
\* for an identity.
ShareForClient(key, clients, allots, path, c) ==
  LET last == CHOOSE i \in DOMAIN allots :
                allots[i].path = path /\ \A j \in DOMAIN allots : j > i => allots[j].path # path
      pos  == CHOOSE i \in DOMAIN clients :
                clients[i] = clients[c] /\ \A j \in DOMAIN clients : j > i => clients[j] # clients[c]
  IN ShareAtIndex(Encrypt(key, allots[last].value), pos - 1)

\* delete obj[k]
RemoveKey(obj, k) == SelectSeq(obj, LAMBDA en : en[1] # k)

\* parent[part] / parent[index]: the position in parent.e of the member the
\* loop over pathParts moves to, 0 when that member is undefined.
StepPosition(parent, part) ==
  LET num == NumberOf(part)
      propKey == IF num.nan THEN part ELSE NumberString(num.n)
  IN IF parent.t = "obj"
       THEN (IF HasKey(parent.e, propKey) THEN KeyIndex(parent.e, propKey) ELSE 0)
     ELSE IF parent.t = "arr"
       THEN (IF ~num.nan /\ (num.n + 1) \in DOMAIN parent.e THEN num.n + 1 ELSE 0)
     ELSE 0

SpliceFailed == [ok |-> FALSE, val |-> JUndefined]

\* Navigate pathParts from `parent`, then `delete parent[allotKey];
\* parent["%share"] = share`. Reading a member of undefined, and deleting from
\* or assigning to undefined or a primitive, throw a TypeError (ok = FALSE).
\* A named property set on an array is not part of its JSON form.
RECURSIVE SpliceAt(_, _, _, _)
SpliceAt(parent, pathParts, allotKey, share) ==
  IF pathParts = <<>>
    THEN IF parent.t = "obj"
           THEN [ok |-> TRUE,
                 val |-> [parent EXCEPT !.e = SetKey(RemoveKey(@, allotKey), ShareKey, share)]]
         ELSE IF parent.t = "arr" THEN [ok |-> TRUE, val |-> parent]
         ELSE SpliceFailed
    ELSE LET pos == StepPosition(parent, Head(pathParts))
         IN IF pos = 0 THEN SpliceFailed
            ELSE LET r == SpliceAt(parent.e[pos][2], Tail(pathParts), allotKey, share)
                 IN IF r.ok
                      THEN [ok |-> TRUE,
                            val |-> [parent EXCEPT !.e[pos] = <<@[1], r.val>>]]
                      ELSE SpliceFailed

\* for (const { path } of allots) { ... } on one client's bodyCopy, from allot i on
RECURSIVE SpliceAllots(_, _, _, _, _, _)
SpliceAllots(bodyCopy, key, clients, allots, c, i) ==
  IF i > Len(allots) THEN [ok |-> TRUE, val |-> bodyCopy]
  ELSE LET parts == SplitPath(allots[i].path)
           allotKey == parts[Len(parts)]
           pathParts == SubSeq(parts, 1, Len(parts) - 1)
           share == ShareForClient(key, clients, allots, allots[i].path, c)
       IN IF allotKey = <<>> THEN SpliceFailed
          ELSE LET r == SpliceAt(bodyCopy, pathParts, allotKey, share)
               IN IF r.ok THEN SpliceAllots(r.val, key, clients, allots, c, i + 1)
                  ELSE SpliceFailed

\* The body prepared for the client at list position c.
NodeBody(key, clients, b, allots, c) ==
  IF key.present /\ Len(allots) > 0
    THEN SpliceAllots(StructuredClone(b, c), key, clients, allots, c, 1)
    ELSE [ok |-> TRUE, val |-> StructuredClone(b, c)]

\* if (!key && allots.length > 0) throw
ThrowsNoKeyNever(key, allots) == FALSE

ThrowsNoKey(key, allots) == ~key.present /\ Len(allots) > 0

\* prepareRequest({ key, clients, body })
prepareRequest(key, clients, b) ==
  LET allots == findAllotPathsAndValues(b, <<>>)
      bodies == [c \in DOMAIN clients |-> NodeBody(key, clients, b, allots, c)]
  IN IF ThrowsNoKey(key, allots)
       THEN [kind |-> "threw", map |-> <<>>, error |-> "No key but %allot(s) detected in data"]
     ELSE IF \E c \in DOMAIN clients : ~bodies[c].ok
       THEN [kind |-> "threw", map |-> <<>>, error |-> "TypeError"]
     ELSE [kind |-> "returned",
           map |-> FromEntries([c \in DOMAIN clients |-> <<clients[c], bodies[c].val>>]),
           error |-> ""]

\* ------------------------------------------------------------ request bodies

Secrets == {"s1", "s2"}

PublicObject == JObj(<< <<(<<"name">>), JStr("Alice")>> >>)

\* The innermost objects of a body: with a marker (lower or upper case, alone
\* or beside a public field, or both spellings together), and without one.
Leaves ==
  {JObj(<< <<AllotKey, JStr(x)>> >>) : x \in Secrets}
  \cup {JObj(<< <<(<<"%ALLOT">>), JStr("s1")>> >>),
        JObj(<< <<(<<"name">>), JStr("Alice")>>, <<AllotKey, JStr("s1")>> >>),
        JObj(<< <<AllotKey, JStr("s1")>>, <<(<<"%ALLOT">>), JStr("s2")>> >>),
        PublicObject,
        JObj(<<>>)}

\* Field names: plain, containing ".", and empty.
FieldNames == {<<"data">>, <<"a", ".", "b">>, <<>>}

\* One more layer around x: an array, an array after a public document, a field.
Wrap(x) ==
  {JArr(<<x>>), JArr(<<PublicObject, x>>)}
  \cup {JObj(<< <<k, x>> >>) : k \in FieldNames}

RECURSIVE Nested(_)
Nested(d) ==
  IF d = 0 THEN Leaves \cup {JStr("General Hospital")}
  ELSE Nested(d - 1) \cup UNION {Wrap(x) : x \in Nested(d - 1)}

\* Request bodies: an innermost object itself, or one top-level field holding
\* up to MaxDepth layers.
Bodies ==
  {x \in Leaves : TRUE}
  \cup {JObj(<< <<k, x>> >>) : k \in FieldNames, x \in Nested(MaxDepth)}

Keys2 == {NoKey} \cup {[present |-> TRUE, nodes |-> n] : n \in 1..MaxKeyNodes}

\* The configured cluster, in the order of the configured node endpoints.
ClusterOrder == <<"did:n1", "did:n2", "did:n3">>

ClientLists == {SubSeq(ClusterOrder, 1, n) : n \in 1..MaxClients}

InitPrep ==
  /\ pKey \in Keys2
  /\ pClients \in ClientLists
  /\ bodyIn \in Bodies
  /\ body = Allocate(bodyIn, <<0>>)
  /\ prepPc = "ready"
  /\ prepOut = NoPrepared
  /\ mutated = NoMutation
  /\ OthersIdle("prep")

\* The call runs to its return or throw.
PrepareRequest ==
  /\ prepPc = "ready"
  /\ prepOut' = prepareRequest(pKey, pClients, body)
  /\ prepPc' = "done"
  /\ UNCHANGED <<pKey, pClients, bodyIn, body, mutated>>

\* x with the object or array allocated as `id` changed in place.
RECURSIVE Mutation(_, _)
Mutation(x, id) ==
  IF ~IsContainer(x) THEN x
  ELSE LET inner == [j \in DOMAIN x.e |-> <<x.e[j][1], Mutation(x.e[j][2], id)>>]
       IN IF x.id # id THEN [x EXCEPT !.e = inner]
          ELSE IF x.t = "obj"
            THEN [x EXCEPT !.e = SetKey(inner, <<"mutated">>, JStr("later"))]
            ELSE [x EXCEPT !.e = Append(inner, <<(<<>>), JStr("later")>>)]

\* After the call, some code (a serializer, the caller) mutates one object or
\* array reachable from one node's prepared body. Every reference to that
\* object sees the change.
MutateNodeBody ==
  /\ prepPc = "done"
  /\ prepOut.kind = "returned"
  /\ \E c \in DOMAIN prepOut.map :
       \E id \in Allocations(prepOut.map[c][2]) :
         /\ mutated' = [pos |-> c, id |-> id]
         /\ body' = Mutation(body, id)
         /\ prepOut' = [prepOut EXCEPT
              !.map = [k \in DOMAIN prepOut.map |->
                         <<prepOut.map[k][1], Mutation(prepOut.map[k][2], id)>>]]
  /\ prepPc' = "mutated"
  /\ UNCHANGED <<pKey, pClients, bodyIn>>

NextPrep ==
  \/ PrepareRequest /\ UNCHANGED prepFrame
  \/ MutateNodeBody /\ UNCHANGED prepFrame

SpecPrep == InitPrep /\ [][NextPrep]_vars

\* ------------------------------------------------ preparePlaintextRequest

\* { ...body }, made for the client at list position c: a new object whose
\* members are the very values of body's members.
Spread(x, c) == [JObj(x.e) EXCEPT !.id = <<c>>]

\* clients.map((c) => [c.id.toString(), { ...body }]); Object.fromEntries(pairs)
preparePlaintextRequest(clients, b) ==
  [kind |-> "returned",
   map |-> FromEntries([c \in DOMAIN clients |-> <<clients[c], Spread(b, c)>>]),
   error |-> ""]

InitPlain ==
  /\ InitPrep
  /\ pKey = NoKey

\* The call runs to its return.
PreparePlaintextRequest ==
  /\ prepPc = "ready"
  /\ prepOut' = preparePlaintextRequest(pClients, body)
  /\ prepPc' = "done"
  /\ UNCHANGED <<pKey, pClients, bodyIn, body, mutated>>

NextPlain ==
  \/ PreparePlaintextRequest /\ UNCHANGED prepFrame
  \/ MutateNodeBody /\ UNCHANGED prepFrame

SpecPlain == InitPlain /\ [][NextPlain]_vars

\* ------------------------------------------------- claims: executeOnCluster

Positions == 1..Len(nodes)

RejectedPositions == {i \in Positions : opState[i] = "rejected"}

\* C1: with pairwise distinct identities and every operation fulfilling, the
\* operation was invoked exactly once per node with that node's client and its
\* list index, and the call resolves to a map of exactly M entries in which the
\* entry under each identity is the value that node's own invocation returned.
C1_FanOutComplete ==
  (execPc = "done" /\ Distinct(nodes) /\ \A i \in Positions : opState[i] = "fulfilled")
    => /\ execOut.kind = "resolved"
       /\ Len(calls) = Len(nodes)
       /\ \A i \in Positions : calls[i] = <<nodes[i], i - 1>>
       /\ Len(execOut.map) = Len(nodes)
       /\ \A i \in Positions :
            /\ HasKey(execOut.map, nodes[i])
            /\ Lookup(execOut.map, nodes[i]) = opResult[i]
            /\ opResult[i].node = nodes[i]
            /\ opResult[i].index = i - 1

C1_Witness ==
  /\ execPc = "done"
  /\ Len(nodes) = 3
  /\ Distinct(nodes)
  /\ \A i \in Positions : opState[i] = "fulfilled"
  /\ opResult[1].v # opResult[2].v

\* C2: if k >= 1 operations reject, the call rejects with a list of exactly k
\* entries, one per rejecting node in list order and tagged with its identity,
\* and no result value is returned.
C2_AllOrNothing ==
  (execPc = "done" /\ RejectedPositions # {})
    => /\ execOut.kind = "rejected"
       /\ execOut.thrown = "failures"
       /\ execOut.map = <<>>
       /\ Len(execOut.failures) = Cardinality(RejectedPositions)
       /\ \A i \in RejectedPositions :
            \E j \in 1..Len(execOut.failures) :
              /\ execOut.failures[j].node = nodes[i]
              /\ j = Cardinality({r \in RejectedPositions : r <= i})

\* C3: the call has no outcome while any invocation is still pending or not
\* yet started.
C3_AllSettle ==
  execOut.kind # "none" => \A i \in Positions : Settled(opState[i])

\* A node rejected first, others settled after it, and only then the call failed.
C3_Witness ==
  /\ execPc = "done"
  /\ execOut.kind = "rejected"
  /\ Len(nodes) >= 2
  /\ firstSettled \in RejectedPositions
  /\ \E j \in Positions : opState[j] = "fulfilled"

\* The entry the claim expects for a rejected value.
ExpectedError(reason) ==
  [message |-> IF reason.message.ty = "string" THEN reason.message ELSE Str(""),
   body    |-> IF reason.cause.ty = "object"
                 THEN Coalesce(reason.cause.body, Undefined) ELSE Undefined,
   status  |-> IF reason.cause.ty = "object" THEN reason.cause.status ELSE Undefined]

\* C4: whatever value a node rejects with, the call rejects with the failure
\* list, and that node's entry is {node, error: {message, body, status}}.
C4_NormalizedErrors ==
  (execPc = "done" /\ RejectedPositions # {})
    => /\ execOut.thrown = "failures"
       /\ \A i \in RejectedPositions :
            \E j \in 1..Len(execOut.failures) :
              execOut.failures[j] = [node |-> nodes[i], error |-> ExpectedError(opReason[i])]

\* The first and the last list position holding the identity id.
FirstPosition(id) == CHOOSE i \in Positions : nodes[i] = id /\ \A j \in Positions : nodes[j] = id => i <= j
LastPosition(id) == CHOOSE i \in Positions : nodes[i] = id /\ \A j \in Positions : nodes[j] = id => j <= i

\* The j-th rejected position, in list order.
RejectedAt(j) == CHOOSE i \in RejectedPositions : Cardinality({r \in RejectedPositions : r <= i}) = j

\* C31: the outcome is fixed by each node's own result and the configured
\* node order, whichever node settled first: the result map has one key per
\* identity in list order holding that node's own value (so the first value,
\* the one a "first" reconciliation picks, is that of the first configured
\* node), and the failure list has the rejecting nodes in list order.
C31_SettleOrderIrrelevant ==
  execPc = "done" =>
    /\ execOut.kind = "resolved" =>
         /\ Keys(execOut.map) = Range(nodes)
         /\ \A a, b \in DOMAIN execOut.map :
              a < b => FirstPosition(execOut.map[a][1]) < FirstPosition(execOut.map[b][1])
         /\ \A a \in DOMAIN execOut.map :
              execOut.map[a][2] = opResult[LastPosition(execOut.map[a][1])]
         /\ Len(nodes) > 0 => execOut.map[1][1] = nodes[1]
    /\ execOut.thrown = "failures" =>
         /\ Len(execOut.failures) = Cardinality(RejectedPositions)
         /\ \A j \in DOMAIN execOut.failures :
              execOut.failures[j] =
                [node |-> nodes[RejectedAt(j)], error |-> Flattened(opReason[RejectedAt(j)])]
    /\ execOut.kind = "resolved" <=> RejectedPositions = {}

\* The last of three nodes settled first and the call resolved; the map
\* still starts with the first configured node.
C31_Witness ==
  /\ execPc = "done"
  /\ Len(nodes) = 3
  /\ Distinct(nodes)
  /\ firstSettled = 3
  /\ execOut.kind = "resolved"
  /\ execOut.map[1] = <<nodes[1], opResult[1]>>

\* Every operation has been started and has settled.
EveryOperationSettled ==
  /\ mapIdx = Len(nodes)
  /\ \A i \in Positions : Settled(opState[i])

\* C32: executeOnCluster has no timeout of its own: once every node operation
\* has settled it eventually resolves or rejects, and as long as one of them
\* has not settled it has no outcome, however the others settled.
C32_NoTimeout ==
  /\ EveryOperationSettled ~> execOut.kind # "none"
  /\ [](~EveryOperationSettled => execOut.kind = "none")

\* One of two operations rejected and the other is still pending: the call
\* is waiting, without an outcome.
C32_Witness ==
  /\ execPc = "awaiting"
  /\ Len(nodes) = 2
  /\ \E i, j \in Positions : opState[i] = "rejected" /\ opState[j] = "pending"
  /\ execOut.kind = "none"

\* The operation has been invoked for every node, with its client and index.
EveryOperationInvoked ==
  /\ Len(calls) = Len(nodes)
  /\ \A i \in Positions : calls[i] = <<nodes[i], i - 1>>

\* C33: the operation is invoked for every node before executeOnCluster
\* waits on any of them: whether the operations of other nodes throw, reject
\* or never settle, every node's operation is eventually invoked, and the
\* wait begins only after the last invocation.
C33_AllStartedBeforeWaiting ==
  /\ [](execPc # "mapping" => EveryOperationInvoked)
  /\ [](execPc = "mapping" => \A i \in Positions : opState[i] # "fulfilled")
  /\ <>EveryOperationInvoked

\* The first node's operation threw synchronously and the second node's
\* operation was invoked all the same, before any wait.
C33_Witness ==
  /\ execPc = "mapping"
  /\ Len(nodes) = 2
  /\ opState[1] = "rejected"
  /\ EveryOperationInvoked

\* C34: the Promise.all variant of executeOnCluster meets the contract of
\* the allSettled one for every combination of node outcomes: it has no
\* outcome before every node has settled, and it fails with the list of
\* {node, normalized error} records, one per failing node.
C34_PromiseAllSameContract ==
  execOut.kind # "none" =>
    /\ \A i \in Positions : Settled(opState[i])
    /\ execOut = ExecOutcome(nodes, opState, opResult, opReason)

\* --------------------------------------------------- claims: prepareRequest

\* A concealment marker occurs in x, at any depth, in objects or arrays.
RECURSIVE HasMarker(_)
HasMarker(x) ==
  /\ IsContainer(x)
  /\ \E j \in DOMAIN x.e :
       \/ x.t = "obj" /\ IsAllotKey(x.e[j][1])
       \/ HasMarker(x.e[j][2])

\* The marker occurrences of x: <<position of the object, marker key, value>>.
RECURSIVE MarkerSites(_)
MarkerSites(x) ==
  IF ~IsContainer(x) THEN {}
  ELSE {<<Tail(x.id), x.e[j][1], x.e[j][2].v>> :
          j \in {k \in DOMAIN x.e : x.t = "obj" /\ IsAllotKey(x.e[k][1])}}
       \cup UNION {MarkerSites(x.e[j][2]) : j \in DOMAIN x.e}

\* The `%share` keys of x holding a share for list position c:
\* <<position of the object, shared value>>.
RECURSIVE ShareSites(_, _)
ShareSites(x, c) ==
  IF ~IsContainer(x) THEN {}
  ELSE {<<Tail(x.id), x.e[j][2].v>> :
          j \in {k \in DOMAIN x.e : /\ x.t = "obj"
                                    /\ x.e[k][1] = ShareKey
                                    /\ x.e[k][2].t = "share"
                                    /\ x.e[k][2].sh = c}}
       \cup UNION {ShareSites(x.e[j][2], c) : j \in DOMAIN x.e}

\* A `%share` key of x holds undefined.
RECURSIVE HasMissingShare(_)
HasMissingShare(x) ==
  /\ IsContainer(x)
  /\ \E j \in DOMAIN x.e :
       \/ x.t = "obj" /\ x.e[j][1] = ShareKey /\ x.e[j][2].t = "undef"
       \/ HasMissingShare(x.e[j][2])

\* A value that was marked for concealment occurs in x in plaintext.
RECURSIVE HasPlainSecret(_)
HasPlainSecret(x) ==
  \/ x.t = "str" /\ x.v \in Secrets
  \/ IsContainer(x) /\ \E j \in DOMAIN x.e : HasPlainSecret(x.e[j][2])

\* The body prepared for the client at list position c.
PreparedFor(c) == Lookup(prepOut.map, pClients[c])

ClientPositions == DOMAIN pClients

\* C5: with a key, every returned per-node body has each marker of the input
\* replaced, in the same object, by a `%share` key holding that node's share
\* of that value; no marker remains and no marked value is lost.
C5_MarkersReplaced ==
  (prepPc = "done" /\ pKey.present /\ prepOut.kind = "returned")
    => \A c \in ClientPositions :
         /\ ~HasMarker(PreparedFor(c))
         /\ ShareSites(PreparedFor(c), c) = {<<m[1], m[3]>> : m \in MarkerSites(body)}

\* C6: without a key, a body that contains a marker at any depth makes
\* prepareRequest throw; no per-node map is returned.
C6_MarkerWithoutKeyThrows ==
  (prepPc = "done" /\ ~pKey.present /\ HasMarker(bodyIn))
    => prepOut.kind = "threw" /\ prepOut.map = <<>>

\* C7: when the key yields a number of shares for a marked value that differs
\* from the number of clients, prepareRequest throws, and no returned body
\* has a share missing.
C7_ShareCountMismatchThrows ==
  /\ (/\ prepPc = "done"
      /\ pKey.present
      /\ Len(findAllotPathsAndValues(body, <<>>)) > 0
      /\ pKey.nodes # Len(pClients))
       => prepOut.kind = "threw"
  /\ (prepPc = "done" /\ prepOut.kind = "returned")
       => \A c \in ClientPositions : ~HasMissingShare(PreparedFor(c))

\* C8: with no key and a marker-free body, one entry per client is returned,
\* each structurally equal to the input; mutating any object or array of one
\* node's body afterwards changes neither another node's body nor the
\* caller's body.
C8_IndependentCopies ==
  (~pKey.present /\ ~HasMarker(bodyIn) /\ prepPc \in {"done", "mutated"})
    => /\ prepOut.kind = "returned"
       /\ Len(prepOut.map) = Len(pClients)
       /\ \A c \in ClientPositions : HasKey(prepOut.map, pClients[c])
       /\ prepPc = "done" =>
            \A c \in ClientPositions : Plain(PreparedFor(c)) = bodyIn
       /\ prepPc = "mutated" =>
            /\ Plain(body) = bodyIn
            /\ Plain(PreparedFor(mutated.pos)) # bodyIn
            /\ \A c \in ClientPositions \ {mutated.pos} : Plain(PreparedFor(c)) = bodyIn

\* A nested array of one of two nodes' bodies was mutated.
C8_Witness ==
  /\ prepPc = "mutated"
  /\ ~pKey.present
  /\ ~HasMarker(bodyIn)
  /\ Len(pClients) = 2
  /\ Len(mutated.id) >= 3

C10_NoPlaintextSecret ==
  (prepPc = "done" /\ pKey.present /\ prepOut.kind = "returned")
    => \A c \in ClientPositions : ~HasPlainSecret(PreparedFor(c))

\* ----------------------------------------- claims: preparePlaintextRequest

\* C35: preparePlaintextRequest gives every node an independent deep copy of
\* the body: each prepared body equals the input, and mutating any object or
\* array of one node's body afterwards (a nested one included) changes
\* neither another node's body nor the caller's body.
C35_PlaintextDeepCopies ==
  /\ prepPc = "done" =>
       \A c \in ClientPositions : Plain(PreparedFor(c)) = bodyIn
  /\ prepPc = "mutated" =>
       /\ Plain(body) = bodyIn
       /\ Plain(PreparedFor(mutated.pos)) # bodyIn
       /\ \A c \in ClientPositions \ {mutated.pos} : Plain(PreparedFor(c)) = bodyIn

\* ---------------------------------------------------------- conceal / reveal

\* Further JSON values: a number, a BigInt, a boolean and null. v holds the
\* decimal digits of a number or BigInt, and "true" / "false" for a boolean.
JNum(d)  == [t |-> "num", id |-> <<>>, sh |-> 0, v |-> d, e |-> <<>>]
JBig(d)  == [t |-> "bigint", id |-> <<>>, sh |-> 0, v |-> d, e |-> <<>>]
JBool(b) == [t |-> "bool", id |-> <<>>, sh |-> 0, v |-> b, e |-> <<>>]
JNull    == [t |-> "null", id |-> <<>>, sh |-> 0, v |-> "", e |-> <<>>]

\* The integers of the model's documents, and the literal of each as a BigInt.
NumberDigits == {"30", "42"}
BigIntLiteral(d) == IF d = "30" THEN "30n" ELSE "42n"
BigIntDigits(lit) == IF lit = "30n" THEN "30" ELSE "42"
BigIntLiterals == {BigIntLiteral(d) : d \in NumberDigits}

\* What encrypt makes of its plaintext argument before encrypting: an integer
\* becomes a BigInt, a string stays, any other value becomes String(value).
ToPlaintext(x) ==
  IF x.t = "num" THEN JStr(BigIntLiteral(x.v)) ELSE JStr(x.v)

\* What decrypt hands back for a plaintext.
FromPlaintext(v) ==
  IF v \in BigIntLiterals THEN JBig(BigIntDigits(v)) ELSE JStr(v)

\* typeof value === "object" && value !== null
IsObjectType(x) == x.t \in {"obj", "arr"}

\* "%allot" in value
HasAllotProperty(x) == x.t = "obj" /\ HasKey(x.e, AllotKey)

\* encryptDeep(value) for the value under an object key.
RECURSIVE encryptDeep(_, _)
EncryptMember(key, oVal) ==
  IF IsObjectType(oVal)
    THEN IF HasAllotProperty(oVal)
           THEN JObj(<< <<AllotKey, JArr(Encrypt(key, ToPlaintext(Lookup(oVal.e, AllotKey))))>> >>)
           ELSE encryptDeep(key, oVal)
    ELSE oVal

encryptDeep(key, value) ==
  IF ~IsObjectType(value) THEN value
  ELSE IF IsArray(value)
    THEN [value EXCEPT !.e = [j \in DOMAIN value.e |->
                                <<value.e[j][1], encryptDeep(key, value.e[j][2])>>]]
  ELSE [value EXCEPT !.e = [j \in DOMAIN value.e |->
                              <<value.e[j][1], EncryptMember(key, value.e[j][2])>>]]

AllotThrows == [ok |-> FALSE, docs |-> <<>>]

\* allot(document) of @nillion/blindfold: one document per share found under
\* the `%allot` keys, a single document when there is none.
RECURSIVE allot(_)
AllotMembers(x) ==
  LET r == [j \in DOMAIN x.e |-> allot(x.e[j][2])]
      lens == {Len(r[j].docs) : j \in DOMAIN r} \ {1}
      multiplicity == IF lens = {} THEN 1 ELSE CHOOSE n \in lens : TRUE
  IN IF (\E j \in DOMAIN r : ~r[j].ok) \/ Cardinality(lens) > 1 THEN AllotThrows
     ELSE [ok |-> TRUE,
           docs |-> [i \in 1..multiplicity |->
                       [x EXCEPT !.e = [j \in DOMAIN x.e |->
                          <<x.e[j][1],
                            r[j].docs[IF Len(r[j].docs) = 1 THEN 1 ELSE i]>>]]]]

allot(x) ==
  IF ~IsObjectType(x) THEN [ok |-> TRUE, docs |-> <<x>>]
  ELSE IF HasAllotProperty(x)
    THEN LET items == Lookup(x.e, AllotKey)
         IN IF Len(x.e) # 1 \/ items.t = "obj" THEN AllotThrows
            ELSE IF IsArray(items)
              THEN [ok |-> TRUE,
                    docs |-> [i \in DOMAIN items.e |->
                                JObj(<< <<ShareKey, items.e[i][2]>> >>)]]
            ELSE [ok |-> TRUE, docs |-> <<JObj(<< <<ShareKey, items>> >>)>>]
  ELSE AllotMembers(x)

\* conceal(key, data)
conceal(key, data) ==
  LET shares == allot(encryptDeep(key, data))
  IN IF shares.ok THEN [kind |-> "returned", docs |-> shares.docs]
     ELSE [kind |-> "threw", docs |-> <<>>]

UnifyThrows == [ok |-> FALSE, val |-> JUndefined]

\* decrypt(key, shares) of @nillion/blindfold: the plaintext, when the shares
\* are the key's complete set of shares of one value.
Decrypt(key, shares) ==
  IF /\ Len(shares) = key.nodes
     /\ \A i \in DOMAIN shares : shares[i].t = "share"
     /\ {shares[i].sh : i \in DOMAIN shares} = 1..key.nodes
     /\ \A i \in DOMAIN shares : shares[i].v = shares[1].v
    THEN [ok |-> TRUE, val |-> FromPlaintext(shares[1].v)]
    ELSE UnifyThrows

\* unify(key, documents) of @nillion/blindfold.
RECURSIVE unify(_, _)
UnifyMembers(key, docs) ==
  LET first == docs[1]
      r == [j \in DOMAIN first.e |->
              unify(key, [i \in DOMAIN docs |-> docs[i].e[j][2]])]
  IN IF \E j \in DOMAIN r : ~r[j].ok THEN UnifyThrows
     ELSE [ok |-> TRUE,
           val |-> [first EXCEPT !.e = [j \in DOMAIN first.e |->
                                         <<first.e[j][1], r[j].val>>]]]

unify(key, docs) ==
  LET first == docs[1]
      SameShape == \A i \in DOMAIN docs :
                     /\ docs[i].t = first.t
                     /\ Len(docs[i].e) = Len(first.e)
                     /\ \A j \in DOMAIN first.e : docs[i].e[j][1] = first.e[j][1]
  IN IF Len(docs) = 1 THEN [ok |-> TRUE, val |-> first]
     ELSE IF IsObjectType(first) /\ SameShape
       THEN IF first.t = "obj" /\ Len(first.e) = 1 /\ first.e[1][1] = ShareKey
              THEN Decrypt(key, [i \in DOMAIN docs |-> docs[i].e[1][2]])
              ELSE UnifyMembers(key, docs)
     ELSE IF \A i \in DOMAIN docs : docs[i] = first THEN [ok |-> TRUE, val |-> first]
     ELSE UnifyThrows

\* reveal(key, shares)
reveal(key, shares) ==
  IF shares = <<>> THEN [kind |-> "threw", doc |-> JObj(<<>>)]
  ELSE LET unified == unify(key, shares)
       IN IF unified.ok THEN [kind |-> "returned", doc |-> unified.val]
          ELSE [kind |-> "threw", doc |-> JObj(<<>>)]

\* { "%allot": x }
Marked(x) == JObj(<< <<AllotKey, x>> >>)

\* The values a field of a document holds.
FieldValues ==
  {JStr("John Doe"), JNum("30"), JNull,
   Marked(JStr("s1")), Marked(JNum("42")), Marked(JBool("true")),
   JObj(<< <<(<<"%ALLOT">>), JStr("s1")>> >>),
   JObj(<< <<(<<"ssn">>), Marked(JStr("s2"))>>, <<(<<"name">>), JStr("Alice")>> >>),
   JArr(<<JObj(<< <<(<<"id">>), JNum("30")>>, <<(<<"secret">>), Marked(JStr("s1"))>> >>)>>),
   JArr(<<Marked(JStr("s1"))>>)}

DocFieldNames == <<(<<"name">>), (<<"age">>), (<<"tags">>)>>

\* The logical documents: up to MaxFields fields.
Docs ==
  UNION {{JObj([j \in 1..n |-> <<DocFieldNames[j], f[j]>>]) : f \in [1..n -> FieldValues]}
           : n \in 0..MaxFields}

\* Keys for clusters of two or more nodes.
ConcealKeys == {[present |-> TRUE, nodes |-> n] : n \in 2..(MaxKeyNodes + 1)}

InitConc ==
  /\ cKey \in ConcealKeys
  /\ cDoc \in Docs
  /\ concPc = "ready"
  /\ cShares = NoDocs
  /\ cRevealed = NoDoc
  /\ OthersIdle("conc")

Conceal ==
  /\ concPc = "ready"
  /\ cShares' = conceal(cKey, cDoc)
  /\ concPc' = "concealed"
  /\ UNCHANGED <<cKey, cDoc, cRevealed>>

Reveal ==
  /\ concPc = "concealed"
  /\ cShares.kind = "returned"
  /\ cRevealed' = reveal(cKey, cShares.docs)
  /\ concPc' = "revealed"
  /\ UNCHANGED <<cKey, cDoc, cShares>>

NextConc ==
  \/ Conceal /\ UNCHANGED concFrame
  \/ Reveal /\ UNCHANGED concFrame

SpecConc == InitConc /\ [][NextConc]_vars

\* ------------------------------------------------- claims: conceal / reveal

\* r is d with every concealed string revealed and every concealed integer
\* revealed as the BigInt of the same value; concealed booleans, objects and
\* arrays are not compared.
RECURSIVE RoundTrips(_, _)
RoundTrips(d, r) ==
  IF HasAllotProperty(d)
    THEN LET m == Lookup(d.e, AllotKey)
         IN CASE m.t = "num" -> r = JBig(m.v)
              [] m.t = "str" -> r = m
              [] OTHER -> TRUE
  ELSE IF IsObjectType(d)
    THEN /\ r.t = d.t
         /\ Len(r.e) = Len(d.e)
         /\ \A j \in DOMAIN d.e :
              j \in DOMAIN r.e /\ r.e[j][1] = d.e[j][1] /\ RoundTrips(d.e[j][2], r.e[j][2])
  ELSE r = d

\* C11: reveal(K, conceal(K, D)) is D with its concealed strings revealed,
\* its concealed integers revealed as BigInt and every other field unchanged.
C11_RoundTrip ==
  /\ concPc \in {"concealed", "revealed"} => cShares.kind = "returned"
  /\ concPc = "revealed" =>
       cRevealed.kind = "returned" /\ RoundTrips(cDoc, cRevealed.doc)

\* C12: conceal(K, D) returns exactly as many documents as K has nodes,
\* whatever D is.
C12_ShareCardinality ==
  concPc \in {"concealed", "revealed"} =>
    cShares.kind = "returned" /\ Len(cShares.docs) = cKey.nodes

\* ------------------------------------------------ prepareConcealedRequest

\* Largest number of documents in body.data.
MaxConcealedDocs == 2

DataKey == <<"data">>

ConcealedCountMismatch == "Concealed shares count must match node count."

\* The documents of body.data: public, with one marked field, with a marked
\* and a public field, empty.
ConcealedDocs ==
  {JObj(<< <<(<<"name">>), JStr("John Doe")>> >>),
   JObj(<< <<(<<"name">>), Marked(JStr("s1"))>> >>),
   JObj(<< <<(<<"name">>), Marked(JStr("s2"))>>, <<(<<"age">>), JNum("30")>> >>),
   JObj(<<>>)}

ConcealedBodies ==
  {JObj(<< <<DataKey, JArr(docs)>> >>) : docs \in SeqsUpTo(ConcealedDocs, MaxConcealedDocs)}

\* body.data.map((d) => conceal(key, d)), awaited with Promise.all
ConcealAll(key, data) == [d \in DOMAIN data |-> conceal(key, data[d][2])]

\* shares[i], undefined past the end of the array
ShareOfNode(shares, i) == IF i \in DOMAIN shares THEN shares[i] ELSE JUndefined

\* concealedDocs.at(0)?.length !== clients.length
CountMismatch(concealedDocs, clients) ==
  IF Len(concealedDocs) = 0 THEN TRUE
  ELSE Len(concealedDocs[1].docs) # Len(clients)

\* { ...body, data: sharesByNode[index] } for the client at list position i
ConcealedPayload(b, concealedDocs, i) ==
  [b EXCEPT !.e = SetKey(b.e, DataKey,
     JArr([d \in DOMAIN concealedDocs |-> ShareOfNode(concealedDocs[d].docs, i)]))]

prepareConcealedRequest(key, clients, b) ==
  LET concealedDocs == ConcealAll(key, Lookup(b.e, DataKey).e)
  IN IF \E d \in DOMAIN concealedDocs : concealedDocs[d].kind = "threw"
       THEN [kind |-> "threw", map |-> <<>>, error |-> "conceal"]
     ELSE IF CountMismatch(concealedDocs, clients)
       THEN [kind |-> "threw", map |-> <<>>, error |-> ConcealedCountMismatch]
     ELSE [kind |-> "returned",
           map |-> FromEntries([c \in DOMAIN clients |->
                      <<clients[c], ConcealedPayload(b, concealedDocs, c)>>]),
           error |-> ""]

InitConcealed ==
  /\ pKey \in Keys2 \ {NoKey}
  /\ pClients \in ClientLists
  /\ bodyIn \in ConcealedBodies
  /\ body = Allocate(bodyIn, <<0>>)
  /\ prepPc = "ready"
  /\ prepOut = NoPrepared
  /\ mutated = NoMutation
  /\ OthersIdle("prep")

\* The call runs to its return or throw.
PrepareConcealedRequest ==
  /\ prepPc = "ready"
  /\ prepOut' = prepareConcealedRequest(pKey, pClients, bodyIn)
  /\ prepPc' = "done"
  /\ UNCHANGED <<pKey, pClients, bodyIn, body, mutated>>

NextConcealed == PrepareConcealedRequest /\ UNCHANGED prepFrame

SpecConcealed == InitConcealed /\ [][NextConcealed]_vars

\* ----------------------------------------- claims: prepareConcealedRequest

\* body.data and a node's prepared data array, as sequences of documents.
DataIn == [d \in DOMAIN Lookup(bodyIn.e, DataKey).e |-> Lookup(bodyIn.e, DataKey).e[d][2]]
PreparedData(c) ==
  [d \in DOMAIN Lookup(PreparedFor(c).e, DataKey).e |-> Lookup(PreparedFor(c).e, DataKey).e[d][2]]

\* C36: prepareConcealedRequest throws "Concealed shares count must match
\* node count." whenever the share count of some document of body.data
\* differs from the number of clients, so no returned data array holds an
\* undefined share; for an empty body.data it returns, for every node, a body
\* with an empty data array.
C36_ShareCountChecked ==
  prepPc = "done" =>
    /\ (\E d \in DOMAIN DataIn : Len(conceal(pKey, DataIn[d]).docs) # Len(pClients))
         => (prepOut.kind = "threw" /\ prepOut.error = ConcealedCountMismatch)
    /\ prepOut.kind = "returned" =>
         \A c \in ClientPositions : \A d \in DOMAIN PreparedData(c) :
           PreparedData(c)[d] # JUndefined
    /\ DataIn = <<>> =>
         /\ prepOut.kind = "returned"
         /\ Len(prepOut.map) = Len(pClients)
         /\ \A c \in ClientPositions : PreparedData(c) = <<>>

\* ------------------------------------------- processConcealedListResponse

\* Largest number of documents in one node's `data` array.
MaxDocs == 2

IdKey == <<"_id">>

\* doc._id, undefined when the document has none
DocId(doc) == IF HasKey(doc.e, IdKey) THEN Lookup(doc.e, IdKey) ELSE JUndefined

\* if (docId)
Truthy(x) ==
  CASE x.t \in {"undef", "null"} -> FALSE
    [] x.t = "str" -> x.v # ""
    [] x.t = "bool" -> x.v = "true"
    [] OTHER -> TRUE

\* Object.values(resultsByNode).flatMap((r) => r.data)
RECURSIVE FlatMapData(_)
FlatMapData(results) ==
  IF results = <<>> THEN <<>>
  ELSE results[1][2] \o FlatMapData(Tail(results))

\* A grouping that keeps only the last share seen for an id.
RECURSIVE GroupSharesLast(_, _)
GroupSharesLast(allShares, acc) ==
  IF allShares = <<>> THEN acc
  ELSE LET doc == allShares[1]
           docId == DocId(doc)
       IN GroupSharesLast(Tail(allShares),
                          IF Truthy(docId) THEN SetKey(acc, docId, <<doc>>) ELSE acc)

\* A grouping without the test of the id: documents without one are grouped
\* under undefined.
RECURSIVE GroupSharesUnfiltered(_, _)
GroupSharesUnfiltered(allShares, acc) ==
  IF allShares = <<>> THEN acc
  ELSE LET doc == allShares[1]
           docId == DocId(doc)
           group == IF HasKey(acc, docId) THEN Lookup(acc, docId) ELSE <<>>
       IN GroupSharesUnfiltered(Tail(allShares), SetKey(acc, docId, Append(group, doc)))

\* allShares.reduce(...): the Map from document id to its shares, as the
\* sequence of its entries in insertion order.
RECURSIVE GroupShares(_, _)
GroupShares(allShares, acc) ==
  IF allShares = <<>> THEN acc
  ELSE LET doc == allShares[1]
           docId == DocId(doc)
           group == IF HasKey(acc, docId) THEN Lookup(acc, docId) ELSE <<>>
       IN GroupShares(Tail(allShares),
                      IF Truthy(docId) THEN SetKey(acc, docId, Append(group, doc))
                      ELSE acc)

\* Promise.all(revealPromises): rejects if some reveal rejects.
PromiseAllReveal(key, groups) ==
  LET r == [g \in DOMAIN groups |-> reveal(key, groups[g][2])]
  IN IF \E g \in DOMAIN r : r[g].kind = "threw" THEN [kind |-> "threw", docs |-> <<>>]
     ELSE [kind |-> "returned", docs |-> [g \in DOMAIN r |-> r[g].doc]]

\* The same with a completeness check: a group with fewer shares than nodes
\* responded is refused.
processConcealedListResponseChecked(key, resultsByNode) ==
  LET groups == GroupShares(FlatMapData(resultsByNode), <<>>)
  IN IF \E g \in DOMAIN groups : Len(groups[g][2]) < Len(resultsByNode)
       THEN [kind |-> "threw", docs |-> <<>>]
       ELSE PromiseAllReveal(key, groups)

processConcealedListResponse(key, resultsByNode) ==
  PromiseAllReveal(key, GroupShares(FlatMapData(resultsByNode), <<>>))

\* The documents stored in the cluster.
StoredDocs ==
  <<JObj(<< <<IdKey, JStr("doc1")>>, <<(<<"name">>), JStr("Alice")>>,
            <<(<<"secret">>), Marked(JStr("s1"))>> >>),
    JObj(<< <<IdKey, JStr("doc2")>>, <<(<<"secret">>), Marked(JNum("42"))>> >>),
    JObj(<< <<(<<"name">>), JStr("Bob")>>, <<(<<"secret">>), Marked(JStr("s2"))>> >>)>>

\* The share of stored document d held by the node at position i.
NodeShare(key, d, i) == conceal(key, StoredDocs[d]).docs[i]

\* The `data` arrays the node at position i may answer with.
NodeData(key, i) ==
  SeqsUpTo({NodeShare(key, d, i) : d \in DOMAIN StoredDocs}, MaxDocs)

\* The response maps of the first n nodes of the cluster.
RECURSIVE ResponseMaps(_, _)
ResponseMaps(key, n) ==
  IF n = 0 THEN {<<>>}
  ELSE {Append(m, <<ClusterOrder[n], d>>) :
          m \in ResponseMaps(key, n - 1), d \in NodeData(key, n)}

InitList ==
  /\ lKey \in ConcealKeys
  /\ \E n \in 1..MaxClients : n <= lKey.nodes /\ lResults \in ResponseMaps(lKey, n)
  /\ lPc = "ready"
  /\ lGroups = <<>>
  /\ lOut = NoDocs
  /\ OthersIdle("list")

ProcessConcealedListResponse ==
  /\ lPc = "ready"
  /\ lGroups' = GroupShares(FlatMapData(lResults), <<>>)
  /\ lOut' = processConcealedListResponse(lKey, lResults)
  /\ lPc' = "done"
  /\ UNCHANGED <<lKey, lResults>>

NextList == ProcessConcealedListResponse /\ UNCHANGED listFrame

SpecList == InitList /\ [][NextList]_vars

\* ------------------------------ claims: processConcealedListResponse

\* Every share document of the node responses, in node order.
AllShareDocs == FlatMapData(lResults)

\* The distinct document ids occurring in the node responses.
OccurringIds ==
  {DocId(AllShareDocs[i]) : i \in {j \in DOMAIN AllShareDocs : Truthy(DocId(AllShareDocs[j]))}}

\* The share documents that carry the id.
SharesCarrying(docId) == SelectSeq(AllShareDocs, LAMBDA d : DocId(d) = docId)

\* resultsByNode with the documents at positions j and j + 1 of node i's
\* array exchanged.
SwapAt(results, i, j) ==
  [results EXCEPT ![i][2] = [results[i][2] EXCEPT ![j] = results[i][2][j + 1],
                                                  ![j + 1] = results[i][2][j]]]

\* C13: one revealed document per distinct document id of the responses,
\* each the reveal of exactly the share documents carrying that id; an empty
\* list when every array is empty; and the same set of revealed documents
\* however the documents are ordered inside a node's array.
C13_GroupedReveal ==
  lPc = "done" =>
    /\ Len(lGroups) = Cardinality(OccurringIds)
    /\ \A g \in DOMAIN lGroups :
         /\ lGroups[g][1] \in OccurringIds
         /\ lGroups[g][2] = SharesCarrying(lGroups[g][1])
    /\ lOut.kind = "returned" =>
         /\ Len(lOut.docs) = Cardinality(OccurringIds)
         /\ \A g \in DOMAIN lGroups :
              lOut.docs[g] = reveal(lKey, SharesCarrying(lGroups[g][1])).doc
    /\ AllShareDocs = <<>> => lOut = [kind |-> "returned", docs |-> <<>>]
    /\ \A i \in DOMAIN lResults : \A j \in 1..(Len(lResults[i][2]) - 1) :
         LET other == processConcealedListResponse(lKey, SwapAt(lResults, i, j))
         IN other.kind = lOut.kind /\ Range(other.docs) = Range(lOut.docs)

\* Two nodes answered with the shares of two documents, in opposite orders,
\* and both documents were revealed.
C13_Witness ==
  /\ lPc = "done"
  /\ Len(lResults) = 2
  /\ lOut.kind = "returned"
  /\ Len(lOut.docs) = 2
  /\ Len(lResults[1][2]) = 2
  /\ Len(lResults[2][2]) = 2
  /\ Truthy(DocId(lResults[1][2][1]))
  /\ DocId(lResults[1][2][1]) = DocId(lResults[2][2][2])
  /\ Truthy(DocId(lResults[1][2][2]))
  /\ DocId(lResults[1][2][2]) = DocId(lResults[2][2][1])
  /\ DocId(lResults[1][2][1]) # DocId(lResults[1][2][2])
  /\ \E g \in DOMAIN lOut.docs : Lookup(lOut.docs[g].e, <<"secret">>) = JBig("42")

\* ---------------- claims: processConcealedListResponse, documents without id

\* The number of share documents placed in the groups g, g + 1, ...
RECURSIVE PlacedFrom(_)
PlacedFrom(g) == IF g > Len(lGroups) THEN 0 ELSE Len(lGroups[g][2]) + PlacedFrom(g + 1)

\* The share documents of the responses that carry a non-empty id.
WithId == SelectSeq(AllShareDocs, LAMBDA d : Truthy(DocId(d)))

\* C37: every share document with a non-empty _id is placed in exactly one
\* group, that of its _id; share documents without one are in no group and
\* raise no error; so the call returns as many documents as there are
\* distinct non-empty ids.
C37_GroupedById ==
  lPc = "done" =>
    /\ \A a, b \in DOMAIN lGroups : lGroups[a][1] = lGroups[b][1] => a = b
    /\ \A g \in DOMAIN lGroups : \A k \in DOMAIN lGroups[g][2] :
         /\ Truthy(DocId(lGroups[g][2][k]))
         /\ DocId(lGroups[g][2][k]) = lGroups[g][1]
    /\ \A i \in DOMAIN WithId : \E g \in DOMAIN lGroups : lGroups[g][1] = DocId(WithId[i])
    /\ PlacedFrom(1) = Len(WithId)
    /\ (\A g \in DOMAIN lGroups : reveal(lKey, lGroups[g][2]).kind = "returned")
         => /\ lOut.kind = "returned"
            /\ Len(lOut.docs) = Cardinality(OccurringIds)

\* The responses held a share document without _id beside the two shares
\* of a document with one, and the call returned that one document.
C37_Witness ==
  /\ lPc = "done"
  /\ Len(WithId) < Len(AllShareDocs)
  /\ lOut.kind = "returned"
  /\ Len(lOut.docs) = 1
  /\ Len(lGroups[1][2]) = 2

\* ----------------------------------------------- processPlaintextResponse

\* Math.random() returns k / RandomSteps for some k in 0..RandomSteps - 1.
RandomSteps == 4

\* Object.values(results)
ObjectValues(results) == [i \in DOMAIN results |-> results[i][2]]

\* Math.floor(Math.random() * values.length)
RandomIndex(k, length) == (k * length) \div RandomSteps

\* values.at(index), for index >= 0
At(values, index) ==
  IF index + 1 \in DOMAIN values THEN values[index + 1] ELSE JUndefined

\* The selection is discarded whatever it is.
SafeguardNever(selected) == FALSE

\* if (selected === undefined)
Safeguard(selected) == selected.t = "undef"

processPlaintextResponse(results, strategy, k) ==
  LET values == ObjectValues(results)
      index == IF strategy = "random" THEN RandomIndex(k, Len(values)) ELSE 0
      selected == At(values, index)
  IN IF Safeguard(selected)
       THEN [kind |-> "threw", val |-> JUndefined,
             error |-> "Failed to select a canonical response."]
       ELSE [kind |-> "returned", val |-> selected, error |-> ""]

\* What a node's result may be: a response, null, or undefined (void).
PlainValues == {JStr("first"), JStr("second"), JNull, JUndefined}

RECURSIVE ResultMaps(_)
ResultMaps(n) ==
  IF n = 0 THEN {<<>>}
  ELSE {Append(m, <<ClusterOrder[n], v>>) : m \in ResultMaps(n - 1), v \in PlainValues}

InitSel ==
  /\ \E n \in 0..MaxNodes : n <= Len(ClusterOrder) /\ sResults \in ResultMaps(n)
  /\ sStrategy \in {"first", "random", "default"}
  /\ sRandom = 0
  /\ sPc = "ready"
  /\ sOut = NoSelection
  /\ sPrev = NoSelection
  /\ OthersIdle("sel")

\* One call; a later call on the same map is another step.
ProcessPlaintextResponse ==
  /\ sPc \in {"ready", "once"}
  /\ \E k \in 0..(RandomSteps - 1) :
       /\ sRandom' = (IF sStrategy = "random" THEN k ELSE 0)
       /\ sOut' = processPlaintextResponse(sResults, sStrategy, k)
  /\ sPrev' = sOut
  /\ sPc' = (IF sPc = "ready" THEN "once" ELSE "twice")
  /\ UNCHANGED <<sResults, sStrategy>>

NextSel == ProcessPlaintextResponse /\ UNCHANGED selFrame

SpecSel == InitSel /\ [][NextSel]_vars

\* --------------------------------------- claims: processPlaintextResponse

\* C14: with strategy "first", and with no strategy given, the call returns
\* the value of the map's first entry, and so does a repeated call.
C14_FirstIsDeterministic ==
  (sStrategy \in {"first", "default"} /\ sPc \in {"once", "twice"} /\ sResults # <<>>)
    => /\ sOut = [kind |-> "returned", val |-> sResults[1][2], error |-> ""]
       /\ sPc = "twice" => sPrev = sOut

\* C15: on an empty map the call throws "Failed to select a canonical
\* response." under either strategy.
C15_EmptyMapThrows ==
  (sResults = <<>> /\ sPc \in {"once", "twice"})
    => /\ sOut.kind = "threw"
       /\ sOut.error = "Failed to select a canonical response."

\* An empty map was handed in with the "random" strategy.
C15_Witness ==
  /\ sResults = <<>>
  /\ sStrategy = "random"
  /\ sPc = "once"
  /\ sOut.kind = "threw"

\* C16: on a non-empty map the call never fails: it returns one of the map's
\* values under both strategies, whatever the values are.
C16_NonEmptyNeverFails ==
  (sResults # <<>> /\ sPc \in {"once", "twice"})
    => /\ sOut.kind = "returned"
       /\ \E i \in DOMAIN sResults : sOut.val = sResults[i][2]

\* ------------------------------------------------- toBlindfoldKey / from

\* "key" in options, "seed" in options && options.seed !== undefined,
\* "useClusterKey" in options && options.useClusterKey
KeyInOptions(options) == options.hasKey
UseSeed(options) == options.hasSeed /\ options.seed # "undefined"
UseClusterKey(options) == options.hasUseClusterKey /\ options.useClusterKey = "true"

\* A choice of key type that overlooks the seed.
IsClusterKeyBySizeOnly(options, clusterSize) ==
  UseClusterKey(options) \/ clusterSize > 1

\* useClusterKey || (!useSeed && clusterSize > 1)
IsClusterKey(options, clusterSize) ==
  UseClusterKey(options) \/ (~UseSeed(options) /\ clusterSize > 1)

\* toBlindfoldKey({...options, clusterSize}); generate makes a key for a
\* cluster of clusterSize nodes.
toBlindfoldKey(options, clusterSize) ==
  IF KeyInOptions(options) THEN options.key
  ELSE IF IsClusterKey(options, clusterSize)
    THEN KeyObject("ClusterKey", clusterSize, "generated", "undefined")
    ELSE KeyObject("SecretKey", clusterSize, "generated",
                   IF options.hasSeed THEN options.seed ELSE "undefined")

\* SecretVaultBuilderClient.from / SecretVaultUserClient.from with `dbs` node urls.
FacadeFrom(blindfold, dbs) ==
  [clients |-> dbs,
   key |-> IF blindfold.given
             THEN IF KeyInOptions(blindfold) THEN blindfold.key
                  ELSE toBlindfoldKey(blindfold, dbs)
             ELSE NoKeyObject]

\* The configurations BlindfoldFactoryConfig permits.
SuppliedKeys ==
  {KeyObject(type, n, "supplied", "undefined") :
     type \in {"SecretKey", "ClusterKey"}, n \in 1..MaxKeyNodes}

ExistingKeyConfigs ==
  {[NoBlindfold EXCEPT !.given = TRUE, !.hasKey = TRUE, !.key = k] : k \in SuppliedKeys}

SecretKeyConfigs ==
  {[NoBlindfold EXCEPT !.given = TRUE, !.operation = op, !.hasSeed = hs, !.seed = sd,
                       !.hasUseClusterKey = hu] :
     op \in {"store", "match", "sum"}, hs \in BOOLEAN,
     sd \in {"undefined", "", "test-seed"}, hu \in BOOLEAN}

ClusterKeyConfigs ==
  {[NoBlindfold EXCEPT !.given = TRUE, !.operation = op, !.hasSeed = hs,
                       !.hasUseClusterKey = TRUE, !.useClusterKey = "true"] :
     op \in {"store", "match", "sum"}, hs \in BOOLEAN}

BlindfoldFactoryConfig ==
  ExistingKeyConfigs
  \cup {c \in SecretKeyConfigs : ~c.hasSeed => c.seed = "undefined"}
  \cup ClusterKeyConfigs

InitKey ==
  /\ kCfg \in BlindfoldFactoryConfig \cup {NoBlindfold}
  /\ kSize \in 1..MaxNodes
  /\ kPc = "ready"
  /\ kKey = NoKeyObject
  /\ kFacade = NoFacade
  /\ OthersIdle("key")

\* A direct call of toBlindfoldKey.
ToBlindfoldKey ==
  /\ kPc = "ready"
  /\ kCfg.given
  /\ kKey' = toBlindfoldKey(kCfg, kSize)
  /\ kPc' = "key"
  /\ UNCHANGED <<kCfg, kSize, kFacade>>

\* A facade is created for kSize node urls.
From ==
  /\ kPc = "ready"
  /\ kFacade' = FacadeFrom(kCfg, kSize)
  /\ kPc' = "facade"
  /\ UNCHANGED <<kCfg, kSize, kKey>>

NextKey ==
  \/ ToBlindfoldKey /\ UNCHANGED keyFrame
  \/ From /\ UNCHANGED keyFrame

SpecKey == InitKey /\ [][NextKey]_vars

\* ----------------------------------------- claims: toBlindfoldKey / from

SeedGiven == kCfg.hasSeed /\ kCfg.seed # "undefined"
ClusterKeyRequested == kCfg.hasUseClusterKey /\ kCfg.useClusterKey = "true"

\* C17: toBlindfoldKey returns a supplied key itself; otherwise it generates
\* a SecretKey when a seed is given, a ClusterKey when useClusterKey is
\* requested, and with neither a ClusterKey for clusterSize > 1 and a
\* SecretKey for clusterSize = 1.
C17_KeyKind ==
  kPc = "key" =>
    IF kCfg.hasKey THEN kKey = kCfg.key
    ELSE /\ kKey.origin = "generated"
         /\ SeedGiven => kKey.type = "SecretKey" /\ kKey.seed = kCfg.seed
         /\ ClusterKeyRequested => kKey.type = "ClusterKey"
         /\ (~SeedGiven /\ ~ClusterKeyRequested /\ kSize > 1) => kKey.type = "ClusterKey"
         /\ (~SeedGiven /\ ~ClusterKeyRequested /\ kSize = 1) => kKey.type = "SecretKey"

\* A seed was given for a cluster of several nodes.
C17_Witness ==
  /\ kPc = "key"
  /\ ~kCfg.hasKey
  /\ kCfg.seed = "test-seed"
  /\ kSize > 1
  /\ kKey.type = "SecretKey"

\* C18: a facade that has a key has one whose node count is the number of
\* its node clients.
C18_KeyMatchesCluster ==
  (kPc = "facade" /\ kFacade.key.present) => kFacade.key.nodes = kFacade.clients

\* ------------------------------------------- rootToken / refreshRootToken

\* Largest number of refreshRootToken calls made on one client.
MaxRefresh == 3

\* options.rootToken: absent, the empty string (which serializes no token),
\* a serialized token, or an Envelope object.
RootTokenOptions ==
  {NoRootTokenOption,
   [form |-> "empty", token |-> NullToken],
   [form |-> "string", token |-> Envelope("construction", 0)],
   [form |-> "envelope", token |-> Envelope("construction", 0)]}

\* Codec._unsafeDecodeBase64Url(options.rootToken): the envelope the string
\* serializes.
DecodeBase64Url(option) == option.token

\* if (options.rootToken): absent and "" are falsy.
OptionTruthy(option) == option.form \notin {"absent", "empty"}

\* The constructor's re-hydration of #rootToken.
ConstructedRootToken(option) ==
  IF ~OptionTruthy(option) THEN NullToken
  ELSE IF option.form = "string" THEN DecodeBase64Url(option)
  ELSE option.token

\* The getter's error message (the source sets the method name in backquotes).
MustRefreshFirst == "refreshRootToken must be called first"

\* A getter that never refuses.
RootTokenUnchecked(stored) == [kind |-> "returned", token |-> stored, error |-> ""]

\* get rootToken()
RootToken(stored) ==
  IF stored.null
    THEN [kind |-> "threw", token |-> NullToken,
          error |-> MustRefreshFirst]
    ELSE [kind |-> "returned", token |-> stored, error |-> ""]

InitRoot ==
  /\ tCtor \in RootTokenOptions
  /\ tRoot = ConstructedRootToken(tCtor)
  /\ tPending = {}
  /\ tStarted = 0
  /\ tLast = NullToken
  /\ tRead = NoRead
  /\ OthersIdle("root")

\* Some code reads client.rootToken.
ReadRootToken ==
  /\ tRead' = RootToken(tRoot)
  /\ UNCHANGED <<tCtor, tRoot, tPending, tStarted, tLast>>

\* refreshRootToken() is called: it awaits nilauthClient.requestToken.
RefreshRootToken ==
  /\ tStarted < MaxRefresh
  /\ tStarted' = tStarted + 1
  /\ tPending' = tPending \cup {tStarted + 1}
  /\ UNCHANGED <<tCtor, tRoot, tLast, tRead>>

\* requestToken resolves for call n: the token is stored, then the call logs
\* the builder's id (getId resolves with the DID of the signer requestToken
\* has just used) and returns.
RequestTokenResolves(n) ==
  /\ n \in tPending
  /\ tRoot' = Envelope("refresh", n)
  /\ tLast' = Envelope("refresh", n)
  /\ tPending' = tPending \ {n}
  /\ UNCHANGED <<tCtor, tStarted, tRead>>

\* requestToken rejects for call n: refreshRootToken rejects at the await.
RequestTokenRejects(n) ==
  /\ n \in tPending
  /\ tPending' = tPending \ {n}
  /\ UNCHANGED <<tCtor, tRoot, tStarted, tLast, tRead>>

NextRoot ==
  \/ ReadRootToken /\ UNCHANGED rootFrame
  \/ RefreshRootToken /\ UNCHANGED rootFrame
  \/ (\E n \in 1..MaxRefresh : RequestTokenResolves(n)) /\ UNCHANGED rootFrame
  \/ (\E n \in 1..MaxRefresh : RequestTokenRejects(n)) /\ UNCHANGED rootFrame

SpecRoot == InitRoot /\ [][NextRoot]_vars

\* ------------------------------- claims: rootToken / refreshRootToken

\* What a read of rootToken must give after the history so far.
ExpectedRead ==
  IF ~tLast.null THEN [kind |-> "returned", token |-> tLast, error |-> ""]
  ELSE IF tCtor.form \in {"string", "envelope"}
    THEN [kind |-> "returned", token |-> tCtor.token, error |-> ""]
  ELSE [kind |-> "threw", token |-> NullToken,
        error |-> MustRefreshFirst]

MaxAuthNodes == 2

\* The DIDs nodes go by (audience.didString).
AuthDids == {"did:n1", "did:n2", "did:n3"}

\* An invocation minted ahead of the call, for audience aud, by whoever holds
\* the signing key.
PreMinted(aud) == [t |-> "invocation", aud |-> aud, parent |-> "delegation", by |-> "holder"]

\* The empty string stored as an invocation.
EmptyInvocation == [t |-> "invocation", aud |-> "", parent |-> "", by |-> ""]

\* Builder.invocationFrom(parent).audience(aud)...signAndSerialize(signer)
SignAndSerialize(parent, aud, signer) ==
  [t |-> "invocation", aud |-> aud, parent |-> parent, by |-> signer]

\* Record<string, string>: a function from some DIDs to invocation strings.
InvocationMaps ==
  UNION {[D -> {PreMinted(d) : d \in AuthDids} \cup {EmptyInvocation}] :
           D \in SUBSET {"did:n1", "did:n2"}}

\* The auth contexts a call is made with: none, an invocations map (alone,
\* or with a delegation beside it, which the type forbids but JavaScript
\* accepts), a delegation string (valid or not), a temporary signer.
AuthContexts ==
  {NoAuth}
  \cup {[given |-> TRUE, invocations |-> [present |-> TRUE, map |-> m],
         delegation |-> dg, signer |-> ""] :
           m \in InvocationMaps, dg \in {"", "delegation"}}
  \cup {[given |-> TRUE, invocations |-> [present |-> FALSE, map |-> <<>>],
         delegation |-> dg, signer |-> ""] : dg \in {"delegation", "malformed"}}
  \cup {[given |-> TRUE, invocations |-> [present |-> FALSE, map |-> <<>>],
         delegation |-> "", signer |-> "temporary"]}

\* auth.invocations[audience.didString]
InvocationAt(auth, audience) ==
  IF audience \in DOMAIN auth.invocations.map
    THEN auth.invocations.map[audience] ELSE NoToken

\* if (invocation): undefined and "" are falsy.
InvocationTruthy(invocation) == invocation \notin {NoToken, EmptyInvocation}

Returned(token, signed) == [threw |-> FALSE, token |-> token, signed |-> signed, error |-> ""]
Threw(error) == [threw |-> TRUE, token |-> NoToken, signed |-> FALSE, error |-> error]

\* getInvocationFor past the invocations branch: the delegation, else the
\* root token, signed with auth?.signer ?? this.signer.
SignedInvocation(auth, audience, root) ==
  LET signer == IF auth.given /\ auth.signer # "" THEN auth.signer ELSE "client"
  IN IF auth.given /\ auth.delegation # ""
       THEN IF auth.delegation = "malformed"
              THEN Threw("Validator.parse")
              ELSE Returned(SignAndSerialize("delegation", audience, signer), TRUE)
       ELSE IF ~root
              THEN Threw(MustRefreshFirst)
              ELSE Returned(SignAndSerialize("root", audience, signer), TRUE)

\* getInvocationFor with a missing entry treated like a missing map.
getInvocationForFallingBack(auth, audience, root) ==
  IF auth.given /\ auth.invocations.present
       /\ InvocationTruthy(InvocationAt(auth, audience))
    THEN Returned(InvocationAt(auth, audience), FALSE)
    ELSE SignedInvocation(auth, audience, root)

\* getInvocationFor({auth, audience, command})
getInvocationFor(auth, audience, root) ==
  IF auth.given /\ auth.invocations.present
    THEN IF InvocationTruthy(InvocationAt(auth, audience))
           THEN Returned(InvocationAt(auth, audience), FALSE)
           ELSE Threw("not found in provided 'invocations' map")
    ELSE SignedInvocation(auth, audience, root)

AuthNodeLists ==
  {q \in SeqsUpTo({"did:n1", "did:n2"}, MaxAuthNodes) : Len(q) >= 1 /\ Distinct(q)}

\* builder.readProfile({auth}) has called executeOnCluster(this.nodes, ...).
InitAuth ==
  /\ aNodes \in AuthNodeLists
  /\ aAuth \in AuthContexts
  /\ aRoot \in BOOLEAN
  /\ aPc = [i \in 1..Len(aNodes) |-> "start"]
  /\ aToken = [i \in 1..Len(aNodes) |-> NoToken]
  /\ aRequests = [i \in 1..Len(aNodes) |-> NoToken]
  /\ aSigned = {}
  /\ aOut = "pending"
  /\ OthersIdle("auth")

\* Node i's callback: const token = await this.getInvocationFor(...)
GetInvocationFor(i) ==
  /\ i \in 1..Len(aNodes)
  /\ aPc[i] = "start"
  /\ LET r == getInvocationFor(aAuth, aNodes[i], aRoot)
     IN /\ aPc' = [aPc EXCEPT ![i] = IF r.threw THEN "failed" ELSE "token"]
        /\ aToken' = [aToken EXCEPT ![i] = r.token]
        /\ aSigned' = IF r.signed THEN aSigned \cup {r.token} ELSE aSigned
  /\ UNCHANGED <<aNodes, aAuth, aRoot, aRequests, aOut>>

\* Node i's callback: return client.readProfile(token); the request carries
\* the token as its bearer.
ReadProfile(i) ==
  /\ i \in 1..Len(aNodes)
  /\ aPc[i] = "token"
  /\ aRequests' = [aRequests EXCEPT ![i] = aToken[i]]
  /\ aPc' = [aPc EXCEPT ![i] = "sent"]
  /\ UNCHANGED <<aNodes, aAuth, aRoot, aToken, aSigned, aOut>>

\* Node i answers: the request succeeds or fails.
NodeAnswers(i, ok) ==
  /\ i \in 1..Len(aNodes)
  /\ aPc[i] = "sent"
  /\ aPc' = [aPc EXCEPT ![i] = IF ok THEN "done" ELSE "failed"]
  /\ UNCHANGED <<aNodes, aAuth, aRoot, aToken, aRequests, aSigned, aOut>>

\* executeOnCluster settles once every callback has: it rejects if any
\* callback failed.
SettleOperation ==
  /\ aOut = "pending"
  /\ \A i \in 1..Len(aNodes) : aPc[i] \in {"done", "failed"}
  /\ aOut' = IF \E i \in 1..Len(aNodes) : aPc[i] = "failed"
               THEN "rejected" ELSE "fulfilled"
  /\ UNCHANGED <<aNodes, aAuth, aRoot, aPc, aToken, aRequests, aSigned>>

NextAuth ==
  \/ (\E i \in 1..MaxAuthNodes : GetInvocationFor(i)) /\ UNCHANGED authFrame
  \/ (\E i \in 1..MaxAuthNodes : ReadProfile(i)) /\ UNCHANGED authFrame
  \/ (\E i \in 1..MaxAuthNodes, ok \in BOOLEAN : NodeAnswers(i, ok)) /\ UNCHANGED authFrame
  \/ SettleOperation /\ UNCHANGED authFrame

SpecAuth == InitAuth /\ [][NextAuth]_vars

\* --------------------------------------------- claims: invocations map

InvocationsPassed == aAuth.given /\ aAuth.invocations.present

\* The positions of configured nodes the map has no entry for.
NodesWithoutEntry ==
  {i \in 1..Len(aNodes) : aNodes[i] \notin DOMAIN aAuth.invocations.map}

Facades ==
  {[client |-> "builder.ts", op |-> "readProfile"],
   [client |-> "builder.ts", op |-> "createStandardData"],
   [client |-> "part_010", op |-> "readProfile"],
   [client |-> "part_010", op |-> "createStandardData"],
   [client |-> "part_013", op |-> "createData"]}

IsWrite(facade) == facade.op \in {"createStandardData", "createData"}

\* auth with the `invocation` member of CreateDataAuthContext beside the
\* members of AuthContext.
WithInvocation(auth, invocation) ==
  [given |-> auth.given, invocations |-> auth.invocations,
   delegation |-> auth.delegation, signer |-> auth.signer,
   invocation |-> invocation]

\* {delegation} / {delegation: undefined}
DelegationOnly(dg) ==
  [given |-> TRUE, invocations |-> [present |-> FALSE, map |-> <<>>],
   delegation |-> dg, signer |-> ""]

\* The auth arguments a facade method is called with.
\*   builder.ts: options.delegation absent or a delegation string;
\*   part_010:   no auth, a delegation, a temporary signer, or an invocations
\*               map holding each node's own invocation for some of the nodes;
\*   part_013:   auth left out, {delegation}, {invocation} (minted for one
\*               node, or the empty string).
AuthArguments(facade) ==
  IF facade.client = "builder.ts"
    THEN IF facade.op = "readProfile" THEN {WithInvocation(NoAuth, NoToken)}
         ELSE {WithInvocation(NoAuth, NoToken),
               WithInvocation(DelegationOnly("delegation"), NoToken)}
  ELSE IF facade.client = "part_010"
    THEN {WithInvocation(a, NoToken) :
            a \in {c \in AuthContexts :
                     c.invocations.present =>
                       /\ c.delegation = ""
                       /\ \A d \in DOMAIN c.invocations.map :
                            c.invocations.map[d] = PreMinted(d)}}
  ELSE {WithInvocation(NoAuth, NoToken)}
       \cup {WithInvocation(DelegationOnly(dg), NoToken) : dg \in {"delegation", "malformed"}}
       \cup {WithInvocation(DelegationOnly(""), inv) :
               inv \in {PreMinted("did:n1"), PreMinted("did:n2"), EmptyInvocation}}

\* A delegation string handed on as the bearer token: its audience is the
\* client it was issued to.
DelegationAsToken(dg) == [t |-> "delegation", aud |-> "did:client", parent |-> dg, by |-> "issuer"]

\* A mint that signs whether or not a root token is held.
mintRootInvocationUnchecked(audience, root) ==
  Returned(SignAndSerialize("root", audience, "client"), TRUE)

\* mintRootInvocation({audience, command}): this.rootToken throws while unset.
mintRootInvocation(audience, root) ==
  IF ~root THEN Threw(MustRefreshFirst)
  ELSE Returned(SignAndSerialize("root", audience, "client"), TRUE)

\* builder.ts createStandardData: let token = delegation; if (!token) token = mint...
DelegationOrRoot(auth, audience, root) ==
  IF auth.delegation # ""
    THEN Returned(DelegationAsToken(auth.delegation), FALSE)
    ELSE mintRootInvocation(audience, root)

\* part_013 createData: "invocation" in auth throws a TypeError when auth is
\* undefined; a string invocation is handed on; otherwise the delegation is
\* decoded (which throws on undefined or a malformed string) and extended.
InvocationOrDelegation(auth, audience) ==
  IF ~auth.given THEN Threw("Cannot use 'in' operator to search for 'invocation' in undefined")
  ELSE IF auth.invocation # NoToken THEN Returned(auth.invocation, FALSE)
  ELSE IF auth.delegation \in {"", "malformed"} THEN Threw("Codec.decodeBase64Url")
  ELSE Returned(SignAndSerialize("delegation", audience, "client"), TRUE)

\* The token a node's callback obtains.
TokenFor(facade, auth, audience, root) ==
  IF facade.client = "builder.ts"
    THEN IF facade.op = "readProfile"
           THEN mintRootInvocation(audience, root)
           ELSE DelegationOrRoot(auth, audience, root)
  ELSE IF facade.client = "part_010"
    THEN getInvocationFor(auth, audience, root)
  ELSE InvocationOrDelegation(auth, audience)

\* const payload = nodePayloads[id]
PayloadFor(nodePayloads, id) ==
  IF HasKey(nodePayloads, id) THEN Lookup(nodePayloads, id) ELSE JUndefined

\* await prepareRequest(...): a rejection is thrown out of the facade method.
AwaitThrows(outcome) == outcome.kind = "threw"

\* new Error(message) / a TypeError, as a rejection value.
ErrorValue(message) == [ty |-> "Error", message |-> Str(message), cause |-> NoCause]

NoCall == [made |-> FALSE, token |-> NoToken, payload |-> JUndefined]

\* Bodies of a write: public documents, a marked document, a marked document
\* in an array inside an array.
WriteBodies ==
  {JObj(<< <<(<<"data">>), JArr(<<PublicObject>>)>> >>),
   JObj(<< <<(<<"data">>), JArr(<<JObj(<< <<AllotKey, JStr("s1")>> >>)>>)>> >>),
   JObj(<< <<(<<"data">>), JArr(<<JArr(<<JObj(<< <<AllotKey, JStr("s1")>> >>)>>)>>)>> >>)}

\* The facade method has been called.
InitWrite ==
  /\ wFacade \in Facades
  /\ wClients \in ClientLists
  /\ wAuth \in AuthArguments(wFacade)
  /\ wRoot \in BOOLEAN
  /\ IF IsWrite(wFacade)
       THEN /\ wKey \in Keys2
            /\ \E b \in WriteBodies : wBody = Allocate(b, <<0>>)
            /\ wPc = "called"
       ELSE /\ wKey = NoKey
            /\ wBody = JUndefined
            /\ wPc = "dispatch"
  /\ wPrep = NoPrepared
  /\ wNodeSt = [i \in 1..Len(wClients) |-> "idle"]
  /\ wCalls = [i \in 1..Len(wClients) |-> NoCall]
  /\ wReasons = [i \in 1..Len(wClients) |-> NoRejection]
  /\ wOut = NoOutcome
  /\ OthersIdle("write")

\* const nodePayloads = await prepareRequest({ key, clients, body })
PrepareWrite ==
  /\ wPc = "called"
  /\ LET prepared == prepareRequest(wKey, wClients, wBody)
     IN /\ wPrep' = prepared
        /\ IF AwaitThrows(prepared)
             THEN /\ wPc' = "settled"
                  /\ wOut' = [kind |-> "rejected", map |-> <<>>, failures |-> <<>>,
                              thrown |-> prepared.error]
             ELSE /\ wPc' = "dispatch"
                  /\ wOut' = wOut
  /\ UNCHANGED <<wFacade, wKey, wClients, wBody, wAuth, wRoot, wNodeSt, wCalls, wReasons>>

\* executeOnCluster's callback for node i: obtain the token, look the payload
\* up, call the node client's method. A throw rejects that node's promise.
NodeCallback(i) ==
  /\ wPc = "dispatch"
  /\ i \in 1..Len(wClients)
  /\ wNodeSt[i] = "idle"
  /\ LET r == TokenFor(wFacade, wAuth, wClients[i], wRoot)
     IN IF r.threw
          THEN /\ wNodeSt' = [wNodeSt EXCEPT ![i] = "rejected"]
               /\ wReasons' = [wReasons EXCEPT ![i] = ErrorValue(r.error)]
               /\ wCalls' = wCalls
          ELSE /\ wNodeSt' = [wNodeSt EXCEPT ![i] = "pending"]
               /\ wReasons' = wReasons
               /\ wCalls' = [wCalls EXCEPT ![i] =
                    [made |-> TRUE, token |-> r.token,
                     payload |-> IF IsWrite(wFacade)
                                   THEN PayloadFor(wPrep.map, wClients[i])
                                   ELSE JUndefined]]
  /\ UNCHANGED <<wFacade, wKey, wClients, wBody, wAuth, wRoot, wPc, wPrep, wOut>>

\* Node i's request settles.
NodeSettles(i, ok) ==
  /\ wPc = "dispatch"
  /\ i \in 1..Len(wClients)
  /\ wNodeSt[i] = "pending"
  /\ wNodeSt' = [wNodeSt EXCEPT ![i] = IF ok THEN "fulfilled" ELSE "rejected"]
  /\ wReasons' = [wReasons EXCEPT ![i] = IF ok THEN @ ELSE HttpError]
  /\ UNCHANGED <<wFacade, wKey, wClients, wBody, wAuth, wRoot, wPc, wPrep, wCalls, wOut>>

\* await executeOnCluster(...) settles; the facade method returns its result
\* or rejects with what it threw.
SettleWrite ==
  /\ wPc = "dispatch"
  /\ PromiseAllSettled(wNodeSt)
  /\ wOut' = ExecOutcome(wClients, wNodeSt, [i \in 1..Len(wClients) |-> "ok"], wReasons)
  /\ wPc' = "settled"
  /\ UNCHANGED <<wFacade, wKey, wClients, wBody, wAuth, wRoot, wPrep, wNodeSt, wCalls, wReasons>>

NextWrite ==
  \/ PrepareWrite /\ UNCHANGED writeFrame
  \/ (\E i \in 1..MaxClients : NodeCallback(i)) /\ UNCHANGED writeFrame
  \/ (\E i \in 1..MaxClients, ok \in BOOLEAN : NodeSettles(i, ok)) /\ UNCHANGED writeFrame
  \/ SettleWrite /\ UNCHANGED writeFrame

SpecWrite == InitWrite /\ [][NextWrite]_vars

\* ------------------------------------- claims: findAllotPathsAndValues

\* C26: findAllotPathsAndValues returns exactly one entry for every marker
\* key of the body, at any depth and in any nesting of objects and arrays
\* (an array directly inside an array included), whatever the case of the
\* marker key; the entry carries the marked value.
C26_OneEntryPerMarker ==
  prepPc = "done" =>
    LET allots == findAllotPathsAndValues(bodyIn, <<>>)
    IN /\ Len(allots) = Cardinality(MarkerSites(Allocate(bodyIn, <<0>>)))
       /\ {allots[i].value.v : i \in DOMAIN allots}
            = {m[3] : m \in MarkerSites(Allocate(bodyIn, <<0>>))}

\* The markers the search records, as <<position of the object, marker key,
\* value>>: those of MarkerSites it reaches (from an object into objects and
\* arrays, from an array into its object elements).
RECURSIVE RecordedSites(_)
RecordedSites(x) ==
  {<<Tail(x.id), x.e[j][1], x.e[j][2].v>> :
     j \in {k \in DOMAIN x.e : x.t = "obj" /\ IsAllotKey(x.e[k][1])}}
  \cup UNION {RecordedSites(x.e[j][2]) :
                j \in {k \in DOMAIN x.e :
                         /\ x.e[k][2].t = "obj" \/ (x.t = "obj" /\ x.e[k][2].t = "arr")
                         /\ ~(x.t = "obj" /\ IsAllotKey(x.e[k][1]))}}

\* C27: for every marker the search recorded, splitting the recorded path
\* and walking it on the copy arrives at the copy of the object the marker
\* was found in, whatever the key names on the way (with ".", empty,
\* number-like): the walk never fails and that object receives the share.
C27_SpliceArrives ==
  (prepPc = "done" /\ pKey.present /\ pKey.nodes = Len(pClients)) =>
    /\ prepOut.kind = "returned"
    /\ \A c \in ClientPositions :
         \A m \in RecordedSites(Allocate(bodyIn, <<0>>)) :
           \E v \in Secrets : <<m[1], v>> \in ShareSites(PreparedFor(c), c)

\* ------------- claims: processConcealedListResponse, incomplete groups

\* The ids carried by fewer share documents than nodes responded.
IncompleteIds == {id \in OccurringIds : Len(SharesCarrying(id)) < Len(lResults)}

\* C25: processConcealedListResponse checks no completeness itself: a
\* document id carried by fewer nodes than responded is still handed to reveal
\* with exactly the shares present; the document is not dropped, and the
\* function fails only if a reveal fails.
C25_NoCompletenessCheck ==
  lPc = "done" =>
    /\ \A id \in IncompleteIds :
         \E g \in DOMAIN lGroups :
           /\ lGroups[g] = <<id, SharesCarrying(id)>>
           /\ lOut.kind = "returned" => lOut.docs[g] = reveal(lKey, SharesCarrying(id)).doc
    /\ lOut.kind = "threw" =>
         \E g \in DOMAIN lGroups : reveal(lKey, lGroups[g][2]).kind = "threw"

\* Two nodes responded, one document id came from one of them only, and
\* the call returned a document for it.
C25_Witness ==
  /\ lPc = "done"
  /\ Len(lResults) = 2
  /\ IncompleteIds # {}
  /\ lOut.kind = "returned"
  /\ \E g \in DOMAIN lGroups : lGroups[g][1] \in IncompleteIds /\ DocId(lOut.docs[g]) = lGroups[g][1]

\* ------------------------------------------- claims: facade operations

\* The message the test of createData without auth expects.
AuthContextRequired ==
  "The 'createData' operation requires an 'AuthContext' containing a delegation token from the collection's builder."

\* C21: user.createData called without an auth context rejects with an error
\* whose message is "The 'createData' operation requires an 'AuthContext'
\* containing a delegation token from the collection's builder."
C21_MissingAuthMessage ==
  (wFacade.op = "createData" /\ ~wAuth.given /\ wPc = "settled") =>
    /\ wOut.kind = "rejected"
    /\ wOut.thrown = AuthContextRequired

\* The body prepareRequest builds for the client at list position i.
BodyPreparedAt(i) ==
  NodeBody(wKey, wClients, wBody, findAllotPathsAndValues(wBody, <<>>), i).val

\* C24: in a facade write, the body handed to each node's client method is
\* the body prepared for that node (never undefined, never another node's)
\* and the token is one whose audience is that node.
C24_OwnBodyOwnToken ==
  IsWrite(wFacade) =>
    \A i \in 1..Len(wClients) :
      wCalls[i].made =>
        /\ wCalls[i].payload # JUndefined
        /\ wCalls[i].payload = BodyPreparedAt(i)
        /\ wCalls[i].token.aud = wClients[i]

\* Some node client method has been invoked.
SomeCallMade == \E i \in 1..Len(wClients) : wCalls[i].made

\* The cases in which preparation is to fail: the body the search finds
\* markers in comes without a key, or with a key made for another number of
\* nodes than there are clients.
PreparationMustThrow ==
  /\ Len(findAllotPathsAndValues(wBody, <<>>)) > 0
  /\ ~wKey.present \/ wKey.nodes # Len(wClients)

\* C28: in a facade write, preparation has completed before any node call
\* is dispatched, and when preparation throws (a marker without a key, a
\* share count that differs from the node count) no node client method is
\* invoked for any node.
C28_PreparedBeforeCalls ==
  IsWrite(wFacade) =>
    /\ (\E i \in 1..Len(wClients) : wNodeSt[i] # "idle") => wPrep.kind = "returned"
    /\ (wPrep.kind = "threw" \/ PreparationMustThrow) => ~SomeCallMade

\* A builder operation called with no auth override while no root token is
\* held.
NoRootNoOverride ==
  /\ wFacade.client \in {"builder.ts", "part_010"}
  /\ ~wRoot
  /\ wAuth = WithInvocation(NoAuth, NoToken)

\* The rejection lists every configured node, in order, each with the
\* message of the rootToken getter.
ListsEveryNode ==
  /\ wOut.kind = "rejected"
  /\ Len(wOut.failures) = Len(wClients)
  /\ \A i \in 1..Len(wClients) :
       /\ wOut.failures[i].node = wClients[i]
       /\ wOut.failures[i].error = Flattened(ErrorValue(MustRefreshFirst))

\* C29 as stated: while the root token is unset and no auth override is
\* supplied, a builder operation invokes no node client method and its
\* rejection lists every configured node.
C29_RejectionListsEveryNode ==
  NoRootNoOverride =>
    /\ ~SomeCallMade
    /\ wPc = "settled" => ListsEveryNode

\* C29: while the root token is unset and no auth override is supplied, a
\* builder operation invokes no node client method and rejects; when its
\* request preparation did not throw (operations without a body have none)
\* the rejection lists every configured node, otherwise it is the error
\* preparation threw.
C29_NoRootNoCalls ==
  NoRootNoOverride =>
    /\ ~SomeCallMade
    /\ wPc = "settled" =>
         IF wPrep.kind = "threw"
           THEN wOut.kind = "rejected" /\ wOut.thrown = wPrep.error /\ wOut.failures = <<>>
           ELSE ListsEveryNode

\* createStandardData of builder.ts on two nodes, without a root token or a
\* delegation, has rejected with both nodes listed and no call made.
C29_Witness ==
  /\ wFacade = [client |-> "builder.ts", op |-> "createStandardData"]
  /\ NoRootNoOverride
  /\ Len(wClients) = 2
  /\ wPrep.kind = "returned"
  /\ wPc = "settled"
  /\ ListsEveryNode
  /\ ~SomeCallMade

\* --------------------------------------- getInvocationFor: the expiry cap

\* Latest expiry (in seconds) of a parent credential.
MaxExpSeconds == 35

\* How many times the clock advances before the invocation is minted.
MaxTicks == 4

\* How far (ms) the clock advances at a time.
ClockStep == 500

\* const defaultExpiresIn = 30_000; const expiryBuffer = 1_000
defaultExpiresIn == 30000
expiryBuffer == 1000

Min(a, b) == IF a < b THEN a ELSE b
Max(a, b) == IF a > b THEN a ELSE b

\* exp ? exp * 1000 - Date.now() - expiryBuffer : defaultExpiresIn
\* (exp undefined and exp 0 are falsy)
RemainingMs(exp, now) ==
  IF exp.present /\ exp.sec # 0
    THEN exp.sec * 1000 - now - expiryBuffer
    ELSE defaultExpiresIn

\* Math.min(defaultExpiresIn, Math.max(1_000, remainingMs))
ExpiresIn(exp, now) == Min(defaultExpiresIn, Max(1000, RemainingMs(exp, now)))

\* nuc.payload.exp of the parent: absent, or a time in seconds.
ParentExps ==
  {[present |-> FALSE, sec |-> 0]}
  \cup {[present |-> TRUE, sec |-> x] : x \in 0..MaxExpSeconds}

InitMint ==
  /\ mParent \in {"delegation", "root"}
  /\ mExp \in ParentExps
  /\ mNow = 0
  /\ mPc = "ready"
  /\ mExpiresIn = 0
  /\ OthersIdle("mint")

\* Time passes before the call.
ClockAdvances ==
  /\ mPc = "ready"
  /\ mNow < MaxTicks * ClockStep
  /\ mNow' = mNow + ClockStep
  /\ UNCHANGED <<mParent, mExp, mPc, mExpiresIn>>

\* getInvocationFor reaches Builder.invocationFrom(parent)...expiresIn(expiresIn)
MintInvocation ==
  /\ mPc = "ready"
  /\ mExpiresIn' = ExpiresIn(mExp, mNow)
  /\ mPc' = "minted"
  /\ UNCHANGED <<mParent, mExp, mNow>>

NextMint ==
  \/ ClockAdvances /\ UNCHANGED mintFrame
  \/ MintInvocation /\ UNCHANGED mintFrame

SpecMint == InitMint /\ [][NextMint]_vars

\* ------------------------------------------------ claims: the expiry cap

\* C22: every invocation minted from a delegation or from the root token
\* lives at most 30 seconds and no longer than the parent credential has
\* left, whatever the parent has left (less than two seconds, or nothing).
C22_LifetimeCapped ==
  mPc = "minted" =>
    /\ mExpiresIn <= 30000
    /\ mExp.present => mExpiresIn <= mExp.sec * 1000 - mNow

\* ------------------------------------------ request / fetchWithRetry

\* Largest maxRetries fetchWithRetry is run with.
MaxRetries == 6

\* maxRetries = 5
DefaultMaxRetries == 5

\* A message is a sequence of fragments; toLowerCase works fragment by
\* fragment and includes looks for a run of fragments.
LowerFragment(f) ==
  CASE f = "Network" -> "network"
    [] f = "Failed" -> "failed"
    [] f = "Timeout" -> "timeout"
    [] OTHER -> f

MessageToLowerCase(message) == [i \in DOMAIN message |-> LowerFragment(message[i])]

Includes(message, needle) ==
  \E i \in 0..(Len(message) - Len(needle)) :
    \A j \in 1..Len(needle) : message[i + j] = needle[j]

\* What fetch throws: Error objects (name, message, cause.status; status 0
\* when there is no cause or no status) and a value that is no Error.
Thrown(isErr, name, message, status) ==
  [isError |-> isErr, name |-> name, message |-> message, status |-> status]

FetchErrors ==
  {Thrown(TRUE, "TypeError", <<"fetch", " ", "failed">>, 0),
   Thrown(TRUE, "TypeError", <<"Failed", " ", "to", " ", "fetch">>, 0),
   Thrown(TRUE, "TypeError", <<"Network", " ", "request", " ", "failed">>, 0),
   Thrown(TRUE, "AbortError", <<"This operation was aborted">>, 0),
   Thrown(TRUE, "Error", <<"upstream">>, 503),
   Thrown(TRUE, "Error", <<"upstream">>, 404),
   Thrown(FALSE, "", <<"timeout">>, 0)}

retryableNames ==
  {"NetworkError", "AbortError", "TimeoutError", "ERR_NETWORK", "ECONNREFUSED",
   "ECONNRESET", "ETIMEDOUT", "ENOTFOUND", "EAI_AGAIN"}

\* isRetryableError(error)
isRetryableError(error) ==
  IF ~error.isError THEN FALSE
  ELSE IF error.name \in retryableNames THEN TRUE
  ELSE LET message == MessageToLowerCase(error.message)
       IN IF \/ Includes(message, <<"network">>)
             \/ Includes(message, <<"fetch", " ", "failed">>)
             \/ Includes(message, <<"connection", " ", "refused">>)
             \/ Includes(message, <<"timeout">>)
            THEN TRUE
          ELSE IF error.status # 0
            THEN error.status >= 500 \/ error.status = 429 \/ error.status = 408
          ELSE FALSE

\* Exponential backoff without the cap.
DelayUncapped(attempt) == 1000 * 2 ^ (attempt - 1)

\* Math.min(1000 * 2 ** (attempt - 1), 10000)
Delay(attempt) == Min(1000 * 2 ^ (attempt - 1), 10000)

\* The responses fetch resolves with: status, content type, and whether the
\* body can be read as its content type says (response.json() rejects on a
\* body that is not JSON).
Responses ==
  {[status |-> st, contentType |-> ct, readable |-> rd] :
     st \in {200, 404, 408, 429, 500, 503},
     ct \in {"application/json", "text/plain", ""},
     rd \in BOOLEAN}
  \ {[status |-> st, contentType |-> ct, readable |-> FALSE] :
       st \in {200, 404, 408, 429, 500, 503}, ct \in {"text/plain", ""}}

ResponseOk(response) == response.status >= 200 /\ response.status <= 299

\* request after fetchWithRetry returned: read the body by content type,
\* throw handleErrorResponse's Error when !response.ok, else parse the schema.
HandleResponse(response) ==
  IF response.contentType = "application/json" /\ ~response.readable
    THEN [kind |-> "rejected", error |-> "SyntaxError", status |-> 0, body |-> ""]
  ELSE IF ~ResponseOk(response)
    THEN [kind |-> "rejected", error |-> "Request failed", status |-> response.status,
          body |-> IF response.contentType = "" THEN "null" ELSE "body"]
  ELSE [kind |-> "fulfilled", error |-> "", status |-> 0, body |-> ""]

\* request(...) has called fetchWithRetry, which has called fetch.
InitFetch ==
  /\ fMax \in 1..MaxRetries
  /\ fAttempt = 1
  /\ fPc = "fetching"
  /\ fFetches = 1
  /\ fPauses = <<>>
  /\ fErrors = <<>>
  /\ fResponse = NoResponse
  /\ fOut = NoRequestOutcome
  /\ OthersIdle("fetch")

\* return await fetch(endpoint, fetchOptions)
FetchResolves(response) ==
  /\ fPc = "fetching"
  /\ fResponse' = response
  /\ fPc' = "returned"
  /\ UNCHANGED <<fMax, fAttempt, fFetches, fPauses, fErrors, fOut>>

\* catch (error): throw it, or compute the delay and pause.
FetchThrows(error) ==
  /\ fPc = "fetching"
  /\ fErrors' = Append(fErrors, error)
  /\ IF ~isRetryableError(error) \/ fAttempt = fMax
       THEN /\ fPc' = "threw"
            /\ fPauses' = fPauses
       ELSE /\ fPc' = "pausing"
            /\ fPauses' = Append(fPauses, Delay(fAttempt))
  /\ UNCHANGED <<fMax, fAttempt, fFetches, fResponse, fOut>>

\* await pause(delay) is over: attempt++, the next fetch is called.
PauseEnds ==
  /\ fPc = "pausing"
  /\ fAttempt' = fAttempt + 1
  /\ fFetches' = fFetches + 1
  /\ fPc' = "fetching"
  /\ UNCHANGED <<fMax, fPauses, fErrors, fResponse, fOut>>

\* request settles: with what fetchWithRetry threw, or with what the
\* response gives.
RequestSettles ==
  /\ fPc \in {"returned", "threw"}
  /\ fOut' = IF fPc = "threw"
               THEN [kind |-> "rejected", error |-> "thrown by fetch", status |-> 0, body |-> ""]
               ELSE HandleResponse(fResponse)
  /\ fPc' = "settled"
  /\ UNCHANGED <<fMax, fAttempt, fFetches, fPauses, fErrors, fResponse>>

NextFetch ==
  \/ (\E response \in Responses : FetchResolves(response)) /\ UNCHANGED fetchFrame
  \/ (\E error \in FetchErrors : FetchThrows(error)) /\ UNCHANGED fetchFrame
  \/ PauseEnds /\ UNCHANGED fetchFrame
  \/ RequestSettles /\ UNCHANGED fetchFrame

\* fetch settles and timers fire.
SpecFetch ==
  /\ InitFetch
  /\ [][NextFetch]_vars
  /\ WF_vars(NextFetch)

\* --------------------------------------- claims: request / fetchWithRetry

Responded == fResponse # NoResponse

\* C23: an HTTP error response is never retried: once fetch has resolved, with
\* whatever status, no further fetch is made, so fetch ran once more than it
\* threw and only after exceptions classified retryable; and a non-OK
\* response makes request reject with an Error whose cause carries the
\* response's status and body.
C23_HttpErrorNotRetried ==
  /\ Responded => fFetches = Len(fErrors) + 1
  /\ \A k \in 1..(fFetches - 1) : isRetryableError(fErrors[k])
  /\ (fPc = "settled" /\ Responded /\ ~ResponseOk(fResponse)) =>
       /\ fOut.kind = "rejected"
       /\ fOut.error = "Request failed"
       /\ fOut.status = fResponse.status

Terminated == fPc \in {"returned", "threw", "settled"}

MaxFanNodes == 3

\* How many times refreshRootToken replaces the root token.
MaxRotations == 2

\* Where a node's callback reads this.rootToken: a read on resumption, after
\* an await of the callback.
ReadsRootAfterAwait(client) == FALSE

\* builder.ts: the callback calls mintRootInvocation (not async) as its first
\* statement; part_010: the callback calls getInvocationFor as its first
\* statement, whose fallback branch reads this.rootToken before any await.
\* Either way the read happens while nodes.map runs the callback.
ReadsRootOnEntry(client) == client \in {"builder.ts", "part_010"}

\* builder.ts callbacks are not suspended before the node client is called;
\* part_010 callbacks await getInvocationFor (signAndSerialize) first.
AwaitsToken(client) == client = "part_010"

InitFan ==
  /\ oClient \in {"builder.ts", "part_010"}
  /\ oNodes \in 1..MaxFanNodes
  /\ oRoot = 1
  /\ oRefresh \in {"idle", "requested"}
  /\ oPc = "called"
  /\ oParent = [i \in 1..oNodes |-> 0]
  /\ oSt = [i \in 1..oNodes |-> "idle"]
  /\ OthersIdle("fan")

\* refreshRootToken(): await this.#nilauthClient.requestToken(...)
RefreshRequested ==
  /\ oRefresh = "idle"
  /\ oRoot <= MaxRotations
  /\ oRefresh' = "requested"
  /\ UNCHANGED <<oClient, oNodes, oRoot, oPc, oParent, oSt>>

\* this.#rootToken = response.token
RefreshAssigns ==
  /\ oRefresh = "requested"
  /\ oRoot <= MaxRotations
  /\ oRoot' = oRoot + 1
  /\ oRefresh' = "idle"
  /\ UNCHANGED <<oClient, oNodes, oPc, oParent, oSt>>

\* executeOnCluster: nodes.map runs every callback, one after the other
\* without returning to the event loop, each up to its first await.
FanOutStarts ==
  /\ oPc = "called"
  /\ oParent' = [i \in 1..oNodes |->
                  IF ReadsRootOnEntry(oClient) \/ ~AwaitsToken(oClient) THEN oRoot ELSE 0]
  /\ oSt' = [i \in 1..oNodes |-> IF AwaitsToken(oClient) THEN "signing" ELSE "sent"]
  /\ oPc' = "awaiting"
  /\ UNCHANGED <<oClient, oNodes, oRoot, oRefresh>>

\* Node i's callback resumes with its token and calls the node client.
CallbackResumes(i) ==
  /\ oPc = "awaiting"
  /\ i \in 1..oNodes
  /\ oSt[i] = "signing"
  /\ oParent' = [oParent EXCEPT ![i] = IF @ = 0 THEN oRoot ELSE @]
  /\ oSt' = [oSt EXCEPT ![i] = "sent"]
  /\ UNCHANGED <<oClient, oNodes, oRoot, oRefresh, oPc>>

\* Node i's request settles.
NodeResponds(i) ==
  /\ oPc = "awaiting"
  /\ i \in 1..oNodes
  /\ oSt[i] = "sent"
  /\ oSt' = [oSt EXCEPT ![i] = "done"]
  /\ UNCHANGED <<oClient, oNodes, oRoot, oRefresh, oPc, oParent>>

\* Promise.allSettled resolves; the operation returns or throws.
FanOutSettles ==
  /\ oPc = "awaiting"
  /\ \A i \in 1..oNodes : oSt[i] = "done"
  /\ oPc' = "settled"
  /\ UNCHANGED <<oClient, oNodes, oRoot, oRefresh, oParent, oSt>>

NextFan ==
  \/ RefreshRequested /\ UNCHANGED fanFrame
  \/ RefreshAssigns /\ UNCHANGED fanFrame
  \/ FanOutStarts /\ UNCHANGED fanFrame
  \/ (\E i \in 1..MaxFanNodes : CallbackResumes(i)) /\ UNCHANGED fanFrame
  \/ (\E i \in 1..MaxFanNodes : NodeResponds(i)) /\ UNCHANGED fanFrame
  \/ FanOutSettles /\ UNCHANGED fanFrame

SpecFan == InitFan /\ [][NextFan]_vars

\* ------------------- claims: root token fallback beside refreshRootToken

\* C38: within one builder operation that falls back to the root token, the
\* invocations of all nodes extend one and the same root token, however
\* refreshRootToken interleaves with the operation: once the fan-out has
\* begun every node's invocation extends the root token held at that moment.
C38_OneRootPerFanOut ==
  oPc \in {"awaiting", "settled"} =>
    /\ \A i \in 1..oNodes : oParent[i] # 0
    /\ \A i, j \in 1..oNodes : oParent[i] = oParent[j]

\* The root token was replaced while one node's callback was still waiting
\* for its token and another's had already sent its request.
C38_Witness ==
  /\ oPc = "awaiting"
  /\ oNodes >= 2
  /\ \E i, j \in 1..oNodes :
       /\ oSt[i] = "signing"
       /\ oSt[j] = "sent"
       /\ oRoot > oParent[j]
       /\ oParent[i] = oParent[j]

====
